---- MODULE Spec2Model ----
(***************************************************************************)
(* A model of design-context-server: the convention-based component        *)
(* discovery of RegistryService, the registry catalog with the tools that  *)
(* read it, and the decorator-driven tool dispatcher of McpService.        *)
(*                                                                         *)
(* Strings are TLA+ strings; TLC evaluates Len, \o and SubSeq on them, so  *)
(* path.extname, String.prototype.includes, template literals and          *)
(* JSON.stringify are computed character by character.                     *)
(***************************************************************************)
EXTENDS Integers, Sequences, FiniteSets, TLC

VARIABLES
    fs,               \* the disk: path -> [kind, content]
    fsOrder,          \* the order in which the disk enumerates a directory
    registriesConfig, \* RegistryService.registriesConfig
    registries,       \* RegistryService.registries (the catalog)
    constructed,      \* the RegistryService constructor has run
    thrown,           \* what the constructor threw, None when it returned
    resp,             \* the last response of a catalog tool, with its request
    watch,            \* a remembered response, dropped when catalog or disk change
    op,               \* the last addRegistry, updateRegistry or deleteRegistry call
    providers,        \* what DiscoveryService.getProviders() returns
    phase,            \* McpService: "created", "connecting", "connected", "failed"
    registered,       \* the calls made to server.registerTool, in order
    calls,            \* the tool calls in flight or answered, by slot
    fmtIn,            \* the value handed to formatToolResult
    fmtOut,           \* what formatToolResult returned for it
    classes,          \* the classes a program declares: parent, members, decorators applied
    metadata          \* reflect-metadata for 'mcp:tool': own entry per class, and the arrays

vars == <<fs, fsOrder, registriesConfig, registries, constructed, thrown, resp, watch, op,
          providers, phase, registered, calls, fmtIn, fmtOut, classes, metadata>>

discoveryVars == <<fs, fsOrder, registriesConfig, registries, constructed, thrown>>
catalogVars == <<resp, watch, op>>
dispatchVars == <<providers, phase, registered, calls>>
formatVars == <<fmtIn, fmtOut>>
decoratorVars == <<classes, metadata>>

(***************************************************************************)
(* JavaScript values: undefined, and arrays where a field may be undefined *)
(***************************************************************************)
Undefined == [t |-> "undefined"]
None == [t |-> "none"]

\* an array; an optional list is Arr(list) or Undefined
Arr(s) == [t |-> "array", a |-> s]

(***************************************************************************)
(* Strings                                                                 *)
(***************************************************************************)
CharAt(s, i) == SubSeq(s, i, i)

\* String.prototype.includes
Includes(s, sub) ==
    \E i \in 1..(Len(s) - Len(sub) + 1) : SubSeq(s, i, i + Len(sub) - 1) = sub

\* String.prototype.lastIndexOf for one character, 1-based, 0 when absent
LastIndexOf(s, ch) ==
    LET hits == {i \in 1..Len(s) : CharAt(s, i) = ch}
    IN IF hits = {} THEN 0 ELSE CHOOSE i \in hits : \A j \in hits : j <= i

LowerChar(ch) ==
    LET upper == "ABCDEFGHIJKLMNOPQRSTUVWXYZ"
        lower == "abcdefghijklmnopqrstuvwxyz"
        hits == {i \in 1..Len(upper) : CharAt(upper, i) = ch}
    IN IF hits = {} THEN ch ELSE CharAt(lower, CHOOSE i \in hits : TRUE)

RECURSIVE ToLowerCase(_)
ToLowerCase(s) ==
    IF Len(s) = 0 THEN ""
    ELSE LowerChar(CharAt(s, 1)) \o ToLowerCase(SubSeq(s, 2, Len(s)))

\* Array.prototype.join
RECURSIVE Join(_, _)
Join(parts, sep) ==
    IF parts = <<>> THEN ""
    ELSE IF Len(parts) = 1 THEN parts[1]
    ELSE parts[1] \o sep \o Join(Tail(parts), sep)

\* Array.prototype.includes
SeqIncludes(seq, x) == \E i \in 1..Len(seq) : seq[i] = x

\* path.join of segments that hold no dot segment and no leading or trailing
\* separator: zero-length segments are ignored
PathJoin(parts) ==
    LET given(part) == part # ""
    IN Join(SelectSeq(parts, given), "/")

\* path.extname of a bare file name: from the last dot to the end, and empty
\* when there is no dot or the only dot is the first character
ExtName(name) ==
    LET i == LastIndexOf(name, ".")
    IN IF i <= 1 THEN "" ELSE SubSeq(name, i, Len(name))

\* path.basename(name, path.extname(name)) of a bare file name
BaseNameNoExt(name) ==
    LET ext == ExtName(name)
    IN IF ext = "" THEN name ELSE SubSeq(name, 1, Len(name) - Len(ext))

(***************************************************************************)
(* The disk.  Every path of the model is one of Nodes or one of Scaffold;  *)
(* the scaffold directories always exist.  A "link" is a dangling symbolic *)
(* link: readdirSync lists it, existsSync answers false for it and         *)
(* statSync throws on it.                                                  *)
(***************************************************************************)
Root == "/w"

ComponentsRoot == "/w/src/components"
StoriesRoot == "/w/src/stories"

Scaffold == {Root, "/w/src", ComponentsRoot, StoriesRoot}

Node(parent, name, kind, content) ==
    [parent |-> parent, name |-> name, kind |-> kind, content |-> content]

Nodes ==
    << Node(ComponentsRoot, "ui", "dir", ""),
       Node("/w/src/components/ui", "Button", "dir", ""),
       Node("/w/src/components/ui/Button", "gone.md", "link", ""),
       Node("/w/src/components/ui/Button", "readme.md", "file", "# Button"),
       Node("/w/src/components/ui", "Empty", "dir", ""),
       Node("/w/src/components/ui/Empty", "notes.txt", "file", "todo"),
       Node(ComponentsRoot, "forms", "dir", ""),
       Node("/w/src/components/forms", "Button", "dir", ""),
       Node("/w/src/components/forms/Button", "usage.mdx", "file", "# Usage"),
       Node(StoriesRoot, "basic", "dir", ""),
       Node("/w/src/stories/basic", "Button", "dir", ""),
       Node("/w/src/stories/basic/Button", "Button.stories.js", "file", "export default {}"),
       Node("/w/src/stories/basic", "ButtonGroup.stories.js", "file", "export default {}"),
       Node(StoriesRoot, "advanced", "dir", ""),
       Node("/w/src/stories/advanced", "Button.stories.js", "file", "export const a = 1"),
       Node("/w/src/stories/advanced", "old.js", "link", "") >>

NodePath(n) == PathJoin(<<n.parent, n.name>>)

NodeIds == 1..Len(Nodes)

NodePaths == {NodePath(Nodes[i]) : i \in NodeIds}

\* the position in Nodes of each path
NodeIndex == [p \in NodePaths |-> CHOOSE i \in NodeIds : NodePath(Nodes[i]) = p]

NodeAt(p) == Nodes[NodeIndex[p]]

FileEntry(n) == [kind |-> n.kind, content |-> n.content]

\* the disk holding exactly the nodes ids
FsOf(ids) ==
    [p \in {NodePath(Nodes[i]) : i \in ids} |-> FileEntry(NodeAt(p))]

IsDir(f, p) == p \in Scaffold \/ (p \in DOMAIN f /\ f[p].kind = "dir")

IsFile(f, p) == p \in DOMAIN f /\ f[p].kind = "file"

\* fs.existsSync
ExistsSync(f, p) == IsDir(f, p) \/ IsFile(f, p)

\* fs.statSync throws
StatThrows(f, p) == ~ExistsSync(f, p)

\* fs.readdirSync throws
ReaddirThrows(f, p) == ~IsDir(f, p)

\* the node ids in the disk's enumeration order
RECURSIVE Reverse(_)
Reverse(s) == IF s = <<>> THEN <<>> ELSE Append(Reverse(Tail(s)), Head(s))

EnumerationOrder(ord) ==
    LET ascending == [i \in NodeIds |-> i]
    IN IF ord = "asc" THEN ascending ELSE Reverse(ascending)

\* fs.readdirSync(p): the names of the entries of directory p
ReaddirSync(f, ord, p) ==
    LET inDir(i) == Nodes[i].parent = p /\ NodePath(Nodes[i]) \in DOMAIN f
        ids == SelectSeq(EnumerationOrder(ord), inDir)
    IN [k \in 1..Len(ids) |-> Nodes[ids[k]].name]

(***************************************************************************)
(* RegistryService: discovery                                              *)
(***************************************************************************)
ComponentLayout(subDirs, storySubDirs, storyExts) ==
    [basePath |-> "src",
     componentDir |-> "components",
     componentSubDirs |-> subDirs,
     componentFileExtensions |-> <<".md", ".mdx">>,
     storiesDir |-> "stories",
     storiesSubDirs |-> storySubDirs,
     storiesFileExtensions |-> storyExts]

DemoConfig ==
    [name |-> "Demo",
     installCommand |-> "npm install demo",
     description |-> "A demo registry",
     useCases |-> <<"Testing">>,
     components |-> ComponentLayout(<<"ui">>, <<"basic">>, <<".stories.js", ".stories.tsx">>)]

WideConfig ==
    [name |-> "Wide",
     installCommand |-> "",
     description |-> "",
     useCases |-> <<>>,
     components |-> ComponentLayout(<<"ui/Empty/notes.txt", "ui", "forms">>,
                                   <<"basic/ButtonGroup.stories.js", "basic", "advanced">>,
                                   <<".js">>)]

\* a layout rooted at the stories tree: its sub-directory list names the
\* component directory itself and one of its children, and its examples are
\* looked up in the components tree
TreeConfig ==
    [name |-> "Tree",
     installCommand |-> "",
     description |-> "",
     useCases |-> <<>>,
     components |->
         [basePath |-> "src",
          componentDir |-> "stories",
          componentSubDirs |-> <<"", "basic">>,
          componentFileExtensions |-> <<".js">>,
          storiesDir |-> "components",
          storiesSubDirs |-> <<"", "ui">>,
          storiesFileExtensions |-> <<".md">>]]

\* a layout with empty sub-directory lists
BareConfig ==
    [name |-> "Bare",
     installCommand |-> "",
     description |-> "",
     useCases |-> <<>>,
     components |-> ComponentLayout(<<>>, <<>>, <<".js">>)]

ConfigChoices ==
    {<<>>, <<DemoConfig>>, <<WideConfig>>, <<DemoConfig, WideConfig>>,
     <<BareConfig, TreeConfig>>}

\* getDirectories: the entries of dirPath that are directories; [] on error
GetDirectories(f, ord, dirPath) ==
    IF ReaddirThrows(f, dirPath) THEN <<>>
    ELSE LET isDirectory(name) == IsDir(f, PathJoin(<<dirPath, name>>))
         IN SelectSeq(ReaddirSync(f, ord, dirPath), isDirectory)

\* the loop of findMarkdownFiles; a statSync that throws ends the loop and
\* the catch block keeps what was pushed before
RECURSIVE MarkdownScan(_, _, _, _, _)
MarkdownScan(f, componentPath, files, extensions, markdownFiles) ==
    IF files = <<>> THEN markdownFiles
    ELSE LET file == Head(files)
             filePath == PathJoin(<<componentPath, file>>)
         IN IF StatThrows(f, filePath) THEN markdownFiles
            ELSE MarkdownScan(f, componentPath, Tail(files), extensions,
                     IF IsFile(f, filePath) /\ SeqIncludes(extensions, ExtName(file))
                     THEN Append(markdownFiles, filePath)
                     ELSE markdownFiles)

\* findMarkdownFiles going down into the first directory of componentPath
FindMarkdownFilesDeep(f, ord, componentPath, extensions) ==
    IF ReaddirThrows(f, componentPath) THEN <<>>
    ELSE LET here == MarkdownScan(f, componentPath, ReaddirSync(f, ord, componentPath),
                                  extensions, <<>>)
             dirs == GetDirectories(f, ord, componentPath)
         IN IF dirs = <<>> THEN here
            ELSE LET below == PathJoin(<<componentPath, dirs[1]>>)
                 IN here \o MarkdownScan(f, below, ReaddirSync(f, ord, below),
                                         extensions, <<>>)

FindMarkdownFiles(f, ord, componentPath, extensions) ==
    IF ReaddirThrows(f, componentPath) THEN <<>>
    ELSE MarkdownScan(f, componentPath, ReaddirSync(f, ord, componentPath),
                      extensions, <<>>)

\* findFilesInDirectoryRoot with the extension compared by equality
FindFilesInDirectoryRootExact(f, ord, dirPath, extensions) ==
    IF ReaddirThrows(f, dirPath) THEN <<>>
    ELSE LET matches(name) ==
                 /\ IsFile(f, PathJoin(<<dirPath, name>>))
                 /\ SeqIncludes(extensions, ExtName(name))
             items == SelectSeq(ReaddirSync(f, ord, dirPath), matches)
         IN [k \in 1..Len(items) |-> PathJoin(<<dirPath, items[k]>>)]

\* findFilesInDirectoryRoot: the files of dirPath whose name contains one of
\* the extensions
FindFilesInDirectoryRoot(f, ord, dirPath, extensions) ==
    IF ReaddirThrows(f, dirPath) THEN <<>>
    ELSE LET matches(name) ==
                 /\ IsFile(f, PathJoin(<<dirPath, name>>))
                 /\ \E k \in 1..Len(extensions) : Includes(name, extensions[k])
             items == SelectSeq(ReaddirSync(f, ord, dirPath), matches)
         IN [k \in 1..Len(items) |-> PathJoin(<<dirPath, items[k]>>)]

\* the loop of findFilesInDirectory
RECURSIVE DirectoryScan(_, _, _, _, _, _)
DirectoryScan(f, dirPath, items, componentName, extensions, files) ==
    IF items = <<>> THEN files
    ELSE LET item == Head(items)
             fullPath == PathJoin(<<dirPath, item>>)
             fileName == BaseNameNoExt(item)
             ext == ExtName(item)
         IN IF StatThrows(f, fullPath) THEN files
            ELSE DirectoryScan(f, dirPath, Tail(items), componentName, extensions,
                     IF /\ IsFile(f, fullPath)
                        /\ Includes(ToLowerCase(fileName), ToLowerCase(componentName))
                        /\ SeqIncludes(extensions, ext)
                     THEN Append(files, fullPath)
                     ELSE files)

FindFilesInDirectory(f, ord, dirPath, componentName, extensions) ==
    IF ReaddirThrows(f, dirPath) THEN <<>>
    ELSE DirectoryScan(f, dirPath, ReaddirSync(f, ord, dirPath), componentName,
                       extensions, <<>>)

\* findStoryFiles: per stories sub-directory, the component's own folder when
\* it exists and is a directory, the sub-directory itself otherwise
\* the loop of findStoryFiles consulting the flat tier as well when the
\* component's own folder gives no file
RECURSIVE StorySubDirScanFallingBack(_, _, _, _, _, _)
StorySubDirScanFallingBack(f, ord, componentName, config, subDirs, storyFiles) ==
    IF subDirs = <<>> THEN storyFiles
    ELSE LET storyBasePath ==
                 PathJoin(<<Root, config.basePath, config.storiesDir, Head(subDirs)>>)
             componentStoryPath == PathJoin(<<storyBasePath, componentName>>)
             own == IF ExistsSync(f, componentStoryPath) /\ IsDir(f, componentStoryPath)
                    THEN FindFilesInDirectoryRoot(f, ord, componentStoryPath,
                                                  config.storiesFileExtensions)
                    ELSE <<>>
             found ==
                 IF ~ExistsSync(f, storyBasePath) THEN <<>>
                 ELSE IF own # <<>> THEN own
                 ELSE FindFilesInDirectory(f, ord, storyBasePath, componentName,
                                           config.storiesFileExtensions)
         IN StorySubDirScanFallingBack(f, ord, componentName, config, Tail(subDirs),
                                       storyFiles \o found)

RECURSIVE StorySubDirScan(_, _, _, _, _, _)
StorySubDirScan(f, ord, componentName, config, subDirs, storyFiles) ==
    IF subDirs = <<>> THEN storyFiles
    ELSE LET storyBasePath ==
                 PathJoin(<<Root, config.basePath, config.storiesDir, Head(subDirs)>>)
             componentStoryPath == PathJoin(<<storyBasePath, componentName>>)
             found ==
                 IF ~ExistsSync(f, storyBasePath) THEN <<>>
                 ELSE IF ExistsSync(f, componentStoryPath) /\ IsDir(f, componentStoryPath)
                 THEN FindFilesInDirectoryRoot(f, ord, componentStoryPath,
                                               config.storiesFileExtensions)
                 ELSE FindFilesInDirectory(f, ord, storyBasePath, componentName,
                                           config.storiesFileExtensions)
         IN StorySubDirScan(f, ord, componentName, config, Tail(subDirs),
                            storyFiles \o found)

FindStoryFiles(f, ord, componentName, config) ==
    StorySubDirScan(f, ord, componentName, config, config.storiesSubDirs, <<>>)

\* the loop body of discoverComponents without the test on markdownFilePaths
ComponentOfFolderNoGate(f, ord, config, componentBasePath, componentFolder) ==
    LET componentPath == PathJoin(<<componentBasePath, componentFolder>>)
        markdownFilePaths ==
            FindMarkdownFiles(f, ord, componentPath, config.componentFileExtensions)
        storyFilePaths == FindStoryFiles(f, ord, componentFolder, config)
    IN << [name |-> componentFolder,
           markdownFilePaths |-> Arr(markdownFilePaths),
           storyFilePaths |->
               IF Len(storyFilePaths) > 0 THEN Arr(storyFilePaths) ELSE Undefined] >>

\* the loop body of discoverComponents keeping an empty example list
ComponentOfFolderEmptyList(f, ord, config, componentBasePath, componentFolder) ==
    LET componentPath == PathJoin(<<componentBasePath, componentFolder>>)
        markdownFilePaths ==
            FindMarkdownFiles(f, ord, componentPath, config.componentFileExtensions)
        storyFilePaths == FindStoryFiles(f, ord, componentFolder, config)
    IN IF Len(markdownFilePaths) = 0 THEN <<>>
       ELSE << [name |-> componentFolder,
                markdownFilePaths |-> Arr(markdownFilePaths),
                storyFilePaths |-> Arr(storyFilePaths)] >>

\* the body of the loop over component folders in discoverComponents: the
\* components a folder adds (none when it has no markdown file)
ComponentOfFolder(f, ord, config, componentBasePath, componentFolder) ==
    LET componentPath == PathJoin(<<componentBasePath, componentFolder>>)
        markdownFilePaths ==
            FindMarkdownFiles(f, ord, componentPath, config.componentFileExtensions)
        storyFilePaths == FindStoryFiles(f, ord, componentFolder, config)
    IN IF Len(markdownFilePaths) = 0 THEN <<>>
       ELSE << [name |-> componentFolder,
                markdownFilePaths |-> Arr(markdownFilePaths),
                storyFilePaths |->
                    IF Len(storyFilePaths) > 0 THEN Arr(storyFilePaths) ELSE Undefined] >>

RECURSIVE FolderScan(_, _, _, _, _)
FolderScan(f, ord, config, componentBasePath, folders) ==
    IF folders = <<>> THEN <<>>
    ELSE ComponentOfFolder(f, ord, config, componentBasePath, Head(folders))
         \o FolderScan(f, ord, config, componentBasePath, Tail(folders))

\* the loop of discoverComponents ending at the first sub-directory that does
\* not exist
RECURSIVE ComponentSubDirScanStopping(_, _, _, _)
ComponentSubDirScanStopping(f, ord, config, subDirs) ==
    IF subDirs = <<>> THEN <<>>
    ELSE LET componentBasePath ==
                 PathJoin(<<Root, config.basePath, config.componentDir, Head(subDirs)>>)
         IN IF ~ExistsSync(f, componentBasePath) THEN <<>>
            ELSE FolderScan(f, ord, config, componentBasePath,
                            GetDirectories(f, ord, componentBasePath))
                 \o ComponentSubDirScanStopping(f, ord, config, Tail(subDirs))

RECURSIVE ComponentSubDirScan(_, _, _, _)
ComponentSubDirScan(f, ord, config, subDirs) ==
    IF subDirs = <<>> THEN <<>>
    ELSE LET componentBasePath ==
                 PathJoin(<<Root, config.basePath, config.componentDir, Head(subDirs)>>)
             here ==
                 IF ~ExistsSync(f, componentBasePath) THEN <<>>
                 ELSE FolderScan(f, ord, config, componentBasePath,
                                 GetDirectories(f, ord, componentBasePath))
         IN here \o ComponentSubDirScan(f, ord, config, Tail(subDirs))

DiscoverComponents(f, ord, config) ==
    ComponentSubDirScan(f, ord, config, config.componentSubDirs)

\* discoverAndRegisterComponents: one registry per configuration, in order
DiscoverAndRegisterComponents(f, ord, configs) ==
    [k \in 1..Len(configs) |->
        [name |-> configs[k].name,
         installCommand |-> configs[k].installCommand,
         description |-> configs[k].description,
         useCases |-> configs[k].useCases,
         components |-> Arr(DiscoverComponents(f, ord, configs[k].components))]]

(***************************************************************************)
(* The disk changes, then the service is constructed.                      *)
(***************************************************************************)
CatalogIdle == resp = None /\ watch = None /\ op = None

DispatchIdle ==
    providers = <<>> /\ phase = "created" /\ registered = <<>> /\ calls = <<>>

\* formatToolResult is not called and no class is being defined
FormatIdle == fmtIn = None /\ fmtOut = None /\ classes = None /\ metadata = None

Init ==
    /\ fs = FsOf({})
    /\ fsOrder \in {"asc", "desc"}
    /\ registriesConfig \in ConfigChoices
    /\ registries = <<>>
    /\ constructed = FALSE
    /\ thrown = None
    /\ CatalogIdle
    /\ DispatchIdle
    /\ FormatIdle

\* a file, directory or dangling link appears in an existing directory
CreateNode(i) ==
    /\ ~constructed
    /\ NodePath(Nodes[i]) \notin DOMAIN fs
    /\ IsDir(fs, Nodes[i].parent)
    /\ fs' = [p \in DOMAIN fs \cup {NodePath(Nodes[i])} |->
                 IF p \in DOMAIN fs THEN fs[p] ELSE FileEntry(Nodes[i])]
    /\ UNCHANGED <<fsOrder, registriesConfig, registries, constructed, thrown>>
    /\ UNCHANGED <<catalogVars, dispatchVars, formatVars, decoratorVars>>

\* the paths at or below p
RECURSIVE Below(_, _)
Below(p, q) ==
    \/ q = p
    \/ /\ q \in NodePaths
       /\ Below(p, NodeAt(q).parent)

\* a file, link or whole directory tree disappears
RemoveNode(i) ==
    /\ ~constructed
    /\ NodePath(Nodes[i]) \in DOMAIN fs
    /\ fs' = [p \in {q \in DOMAIN fs : ~Below(NodePath(Nodes[i]), q)} |-> fs[p]]
    /\ UNCHANGED <<fsOrder, registriesConfig, registries, constructed, thrown>>
    /\ UNCHANGED <<catalogVars, dispatchVars, formatVars, decoratorVars>>

\* the constructor of RegistryService
\* the paths that findStoryFiles finds to exist and then stats, outside any
\* try, for the components of one configuration
StoryDirChecks(f, ord, config) ==
    LET components == DiscoverComponents(f, ord, config)
        names == {components[k].name : k \in 1..Len(components)}
        bases == {PathJoin(<<Root, config.basePath, config.storiesDir,
                             config.storiesSubDirs[s]>>) :
                      s \in 1..Len(config.storiesSubDirs)}
    IN IF names = {} THEN {}
       ELSE {p \in {PathJoin(<<storyBasePath, name>>) :
                       storyBasePath \in {base \in bases : ExistsSync(f, base)},
                       name \in names} :
                ExistsSync(f, p)}

\* the constructor, with another process removing p between fs.existsSync(p)
\* and fs.statSync(p) in findStoryFiles while configuration k is scanned
ConstructWhileRemoving(k, p) ==
    /\ ~constructed
    /\ p \in StoryDirChecks(fs, fsOrder, registriesConfig[k].components)
    /\ fs' = [q \in {x \in DOMAIN fs : ~Below(p, x)} |-> fs[q]]
    /\ constructed' = TRUE
    /\ thrown' = [code |-> "ENOENT", syscall |-> "stat", path |-> p]
    /\ registries' =
           DiscoverAndRegisterComponents(fs, fsOrder, SubSeq(registriesConfig, 1, k - 1))
    /\ UNCHANGED <<fsOrder, registriesConfig>>
    /\ UNCHANGED <<catalogVars, dispatchVars, formatVars, decoratorVars>>

Construct ==
    /\ ~constructed
    /\ constructed' = TRUE
    /\ thrown' = None
    /\ registries' = DiscoverAndRegisterComponents(fs, fsOrder, registriesConfig)
    /\ UNCHANGED <<fs, fsOrder, registriesConfig>>
    /\ UNCHANGED <<catalogVars, dispatchVars, formatVars, decoratorVars>>

Next ==
    \/ \E i \in NodeIds : CreateNode(i)
    \/ \E i \in NodeIds : RemoveNode(i)
    \/ Construct
    \/ \E k \in 1..Len(registriesConfig) :
           \E p \in StoryDirChecks(fs, fsOrder, registriesConfig[k].components) :
               ConstructWhileRemoving(k, p)

Spec == Init /\ [][Next]_vars

(***************************************************************************)
(* Properties of discovery (specification Spec)                            *)
(***************************************************************************)
\* the candidate component directories of a layout: the directories lying
\* directly in an existing configured component sub-directory
CandidateDirs(f, config) ==
    {p \in DOMAIN f :
        /\ f[p].kind = "dir"
        /\ \E k \in 1..Len(config.componentSubDirs) :
               NodeAt(p).parent =
                   PathJoin(<<Root, config.basePath, config.componentDir,
                              config.componentSubDirs[k]>>)}

\* C1: every Component that discovery produces has a non-empty list of
\* documentation paths, and a candidate directory in which discovery finds no
\* documentation file gives no Component: each Component comes from a candidate
\* directory of its name in which findMarkdownFiles found its (non-empty) list.
C1_AdmissionGate ==
    constructed =>
        \A r \in 1..Len(registries) :
            LET config == registriesConfig[r].components
            IN \A k \in 1..Len(registries[r].components.a) :
                   LET c == registries[r].components.a[k]
                       docs == c.markdownFilePaths.a
                   IN /\ Len(docs) >= 1
                      /\ \E d \in CandidateDirs(fs, config) :
                             /\ NodeAt(d).name = c.name
                             /\ \A i \in 1..Len(docs) :
                                    /\ IsFile(fs, docs[i])
                                    /\ NodeAt(docs[i]).parent = d
                                    /\ SeqIncludes(config.componentFileExtensions,
                                           ExtName(NodeAt(docs[i]).name))

\* a catalog built over a disk that holds a candidate directory without any
\* documentation file next to one with documentation
C1_Witness ==
    /\ constructed
    /\ registriesConfig = <<DemoConfig>>
    /\ "/w/src/components/ui/Empty" \in DOMAIN fs
    /\ "/w/src/components/ui/Empty/notes.txt" \in DOMAIN fs
    /\ Len(registries[1].components.a) = 1
    /\ registries[1].components.a[1].name = "Button"

\* the disk of the Demo scenario: ui holds Button (with readme.md) and Empty
\* (with no documentation file), basic holds Button/Button.stories.js
DemoRequired == {1, 2, 4, 5, 10, 11, 12}

DemoOptional == {6, 7, 8, 9}

DemoScenario(f) ==
    \E extra \in SUBSET DemoOptional : DOMAIN f = DOMAIN FsOf(DemoRequired \cup extra)

\* C9: discovery of registry Demo over the Demo scenario gives exactly one
\* Component, Button, with the one documentation path readme.md and the one
\* example path Button.stories.js; Empty is not in the list.
C9_DemoScenario ==
    (constructed /\ DemoScenario(fs)) =>
        \A r \in 1..Len(registries) :
            registries[r].name = "Demo" =>
                registries[r].components =
                    Arr(<< [name |-> "Button",
                            markdownFilePaths |->
                                Arr(<<"/w/src/components/ui/Button/readme.md">>),
                            storyFilePaths |->
                                Arr(<<"/w/src/stories/basic/Button/Button.stories.js">>)] >>)

C9_Witness ==
    /\ constructed
    /\ DemoScenario(fs)
    /\ registriesConfig = <<DemoConfig>>
    /\ Len(registries) = 1
    /\ Len(registries[1].components.a) = 1

(***************************************************************************)
(* RegistryService: the catalog                                            *)
(***************************************************************************)
\* Array.prototype.findIndex on the registry name, 1-based, 0 when absent
FindRegistryIndex(regs, name) ==
    LET hits == {i \in 1..Len(regs) : regs[i].name = name}
    IN IF hits = {} THEN 0 ELSE CHOOSE i \in hits : \A j \in hits : i <= j

GetAllRegistries(regs) == regs

\* getRegistryByName answering with the last registry of that name
GetRegistryByNameLast(regs, name) ==
    LET hits == {i \in 1..Len(regs) : regs[i].name = name}
    IN IF hits = {} THEN Undefined
       ELSE regs[CHOOSE i \in hits : \A j \in hits : j <= i]

GetRegistryByName(regs, name) ==
    LET index == FindRegistryIndex(regs, name)
    IN IF index = 0 THEN Undefined ELSE regs[index]

AddRegistryTo(regs, registry) == Append(regs, registry)

\* updateRegistry adding the registry when the name is absent
UpdateRegistryUpsert(regs, name, updatedRegistry) ==
    LET index == FindRegistryIndex(regs, name)
    IN IF index # 0 THEN [regs EXCEPT ![index] = updatedRegistry]
       ELSE Append(regs, updatedRegistry)

UpdateRegistryIn(regs, name, updatedRegistry) ==
    LET index == FindRegistryIndex(regs, name)
    IN IF index # 0 THEN [regs EXCEPT ![index] = updatedRegistry] ELSE regs

\* deleteRegistry removing only the first registry of that name
DeleteFirstNamed(regs, name) ==
    LET index == FindRegistryIndex(regs, name)
    IN IF index = 0 THEN regs
       ELSE SubSeq(regs, 1, index - 1) \o SubSeq(regs, index + 1, Len(regs))

DeleteRegistryFrom(regs, name) ==
    LET keep(registry) == registry.name # name
    IN SelectSeq(regs, keep)

\* registry.components || []
ComponentsOrEmpty(registry) ==
    IF registry.components = Undefined THEN <<>> ELSE registry.components.a

\* getComponentsByRegistryName falling back on the first registry
GetComponentsOfSomeRegistry(regs, name) ==
    LET registry == GetRegistryByName(regs, name)
    IN IF registry # Undefined THEN ComponentsOrEmpty(registry)
       ELSE IF regs = <<>> THEN <<>> ELSE ComponentsOrEmpty(regs[1])

GetComponentsByRegistryName(regs, name) ==
    LET registry == GetRegistryByName(regs, name)
    IN IF registry = Undefined THEN <<>> ELSE ComponentsOrEmpty(registry)

\* Array.prototype.find on the component name
FindComponent(components, componentName) ==
    LET hits == {i \in 1..Len(components) : components[i].name = componentName}
    IN IF hits = {} THEN Undefined
       ELSE components[CHOOSE i \in hits : \A j \in hits : i <= j]

\* getComponentByName with the component looked up in every registry
GetComponentByNameAnywhere(regs, registryName, componentName) ==
    LET all == [k \in 1..Len(regs) |-> FindComponent(ComponentsOrEmpty(regs[k]), componentName)]
        found(c) == c # Undefined
        hits == SelectSeq(all, found)
    IN IF hits = <<>> THEN Undefined ELSE Head(hits)

GetComponentByName(regs, registryName, componentName) ==
    LET registry == GetRegistryByName(regs, registryName)
    IN IF registry = Undefined THEN Undefined
       ELSE IF registry.components = Undefined THEN Undefined
       ELSE FindComponent(registry.components.a, componentName)

\* getFileContent answering from the disk as the constructor found it
GetFileContentAsScanned(f, filePath) ==
    IF IsFile(FsOf(DemoRequired), filePath) THEN FsOf(DemoRequired)[filePath].content
    ELSE ""

\* getFileContent: '' for a path that does not exist or cannot be read
GetFileContent(f, filePath) ==
    IF ~ExistsSync(f, filePath) THEN ""
    ELSE IF IsFile(f, filePath) THEN f[filePath].content
    ELSE ""

(***************************************************************************)
(* McpService: the tools registered over RegistryService                   *)
(***************************************************************************)
TextResult(text) == [content |-> <<[type |-> "text", text |-> text]>>]

\* x || 'N/A' for a string x
Names(items) == [k \in 1..Len(items) |-> items[k].name]

\* list?.length || 0 for an optional list
LengthOrZero(list) == IF list = Undefined THEN 0 ELSE Len(list.a)

ListRegistriesTool(regs) ==
    TextResult("Available registries: " \o Join(Names(GetAllRegistries(regs)), ", "))

GetRegistryTool(regs, name) ==
    LET registry == GetRegistryByName(regs, name)
        OrNA(s) == IF s = "" THEN "N/A" ELSE s
    IN IF registry = Undefined
       THEN TextResult("Registry '" \o name \o "' not found")
       ELSE TextResult(
                "\nName: " \o registry.name
                \o "\nDescription: " \o OrNA(registry.description)
                \o "\nInstallation: " \o OrNA(registry.installCommand)
                \o "\nUse Cases: " \o OrNA(Join(registry.useCases, ", "))
                \o "\nComponents: " \o OrNA(Join(Names(ComponentsOrEmpty(registry)), ", "))
                \o "\n")

ListComponentsTool(regs, registryName) ==
    LET components == GetComponentsByRegistryName(regs, registryName)
        line(c) ==
            "- " \o c.name
            \o " (Markdown: " \o ToString(LengthOrZero(c.markdownFilePaths))
            \o ", Stories: " \o ToString(LengthOrZero(c.storyFilePaths)) \o ")"
    IN IF Len(components) = 0
       THEN TextResult("No components found in registry '" \o registryName \o "'")
       ELSE TextResult("Components in '" \o registryName \o "':\n"
                       \o Join([k \in 1..Len(components) |-> line(components[k])], "\n"))

FileContents(f, paths) == [k \in 1..Len(paths) |-> GetFileContent(f, paths[k])]

\* get_component_docs with the length test off by one (>= 0)
GetComponentDocsToolAnyLength(regs, f, registryName, componentName) ==
    LET component == GetComponentByName(regs, registryName, componentName)
    IN IF component = Undefined
       THEN TextResult("Component '" \o componentName
                       \o "' not found in registry '" \o registryName \o "'")
       ELSE IF component.markdownFilePaths # Undefined
       THEN TextResult("Documentation for " \o componentName \o ":\n\n"
                       \o Join(FileContents(f, component.markdownFilePaths.a), "\n---\n"))
       ELSE TextResult("No documentation available for component '"
                       \o componentName \o "'")

GetComponentDocsTool(regs, f, registryName, componentName) ==
    LET component == GetComponentByName(regs, registryName, componentName)
    IN IF component = Undefined
       THEN TextResult("Component '" \o componentName
                       \o "' not found in registry '" \o registryName \o "'")
       ELSE IF /\ component.markdownFilePaths # Undefined
               /\ Len(component.markdownFilePaths.a) > 0
       THEN TextResult("Documentation for " \o componentName \o ":\n\n"
                       \o Join(FileContents(f, component.markdownFilePaths.a), "\n---\n"))
       ELSE TextResult("No documentation available for component '"
                       \o componentName \o "'")

GetComponentStoriesTool(regs, f, registryName, componentName) ==
    LET component == GetComponentByName(regs, registryName, componentName)
    IN IF component = Undefined
       THEN TextResult("Component '" \o componentName
                       \o "' not found in registry '" \o registryName \o "'")
       ELSE IF /\ component.storyFilePaths # Undefined
               /\ Len(component.storyFilePaths.a) > 0
       THEN TextResult("Storybook stories for " \o componentName \o ":\n\n"
                       \o Join(FileContents(f, component.storyFilePaths.a), "\n---\n"))
       ELSE TextResult("No Storybook stories available for component '"
                       \o componentName \o "'")

(***************************************************************************)
(* The catalog in use: built by discovery over the Demo disk, then changed *)
(* by addRegistry, updateRegistry and deleteRegistry and read by the       *)
(* tools, while documentation files are rewritten or removed.              *)
(***************************************************************************)
MaxRegistries == 2

\* a registry without a component list
LibRegistry ==
    [name |-> "Lib",
     installCommand |-> "",
     description |-> "",
     useCases |-> <<>>,
     components |-> Undefined]

\* a second registry named Demo: Button with an empty documentation list, Card
\* with no documentation list
ShadowRegistry ==
    [name |-> "Demo",
     installCommand |-> "npm install shadow",
     description |-> "Added by hand",
     useCases |-> <<"Testing", "Docs">>,
     components |->
         Arr(<< [name |-> "Button",
                 markdownFilePaths |-> Arr(<<>>),
                 storyFilePaths |-> Undefined],
                [name |-> "Card",
                 markdownFilePaths |-> Undefined,
                 storyFilePaths |->
                     Arr(<<"/w/src/stories/basic/Button/Button.stories.js">>)] >>)]

AddableRegistries == {LibRegistry, ShadowRegistry}

RegistryNameArgs == {"Demo", "Lib", "Nope"}

ComponentNameArgs == {"Button", "Card", "Nope"}

ReadmePath == "/w/src/components/ui/Button/readme.md"

WritableContents == {"# Button", "", "v2"}

InitCatalog ==
    /\ fs = FsOf(DemoRequired)
    /\ fsOrder = "asc"
    /\ registriesConfig \in {<<>>, <<DemoConfig>>}
    /\ registries = DiscoverAndRegisterComponents(fs, fsOrder, registriesConfig)
    /\ constructed = TRUE
    /\ thrown = None
    /\ CatalogIdle
    /\ DispatchIdle
    /\ FormatIdle

\* a change of the catalog or of the disk: the remembered responses are dropped
Changed ==
    /\ resp' = None
    /\ watch' = None
    /\ UNCHANGED <<fsOrder, registriesConfig, constructed, thrown>>
    /\ UNCHANGED <<dispatchVars, formatVars, decoratorVars>>

\* a call of a catalog method: its arguments and the catalog it found
Operation(kind, name, registry) ==
    [kind |-> kind, name |-> name, registry |-> registry, before |-> registries]

AddRegistry(registry) ==
    /\ Len(registries) < MaxRegistries
    /\ registries' = AddRegistryTo(registries, registry)
    /\ op' = Operation("addRegistry", registry.name, registry)
    /\ UNCHANGED fs
    /\ Changed

UpdateRegistry(name, updatedRegistry) ==
    /\ registries' = UpdateRegistryIn(registries, name, updatedRegistry)
    /\ op' = Operation("updateRegistry", name, updatedRegistry)
    /\ UNCHANGED fs
    /\ Changed

DeleteRegistry(name) ==
    /\ registries' = DeleteRegistryFrom(registries, name)
    /\ op' = Operation("deleteRegistry", name, Undefined)
    /\ UNCHANGED fs
    /\ Changed

\* fs.writeFileSync by another process
WriteFile(p, content) ==
    /\ IsDir(fs, NodeAt(p).parent)
    /\ fs' = [q \in DOMAIN fs \cup {p} |->
                 IF q = p THEN [kind |-> "file", content |-> content] ELSE fs[q]]
    /\ op' = None
    /\ UNCHANGED registries
    /\ Changed

\* fs.rmSync by another process, with the catalog built again afterwards
RemoveFileRediscovering(p) ==
    /\ p \in DOMAIN fs
    /\ fs' = [q \in {x \in DOMAIN fs : ~Below(p, x)} |-> fs[q]]
    /\ op' = None
    /\ registries' = DiscoverAndRegisterComponents(fs', fsOrder, registriesConfig)
    /\ Changed

\* fs.rmSync by another process: a file, or a directory with all it holds
RemoveFile(p) ==
    /\ p \in DOMAIN fs
    /\ fs' = [q \in {x \in DOMAIN fs : ~Below(p, x)} |-> fs[q]]
    /\ op' = None
    /\ UNCHANGED registries
    /\ Changed

Request(tool, registryName, componentName) ==
    [tool |-> tool, registryName |-> registryName, componentName |-> componentName]

\* a tool handler has returned result for request req, leaving the catalog as regs
Responded(req, result, regs) ==
    /\ resp' = [req |-> req, result |-> result]
    /\ watch' = IF watch = None
                THEN IF req.tool \in {"list_registries", "get_component_docs"}
                     THEN [req |-> req, result |-> result, again |-> FALSE]
                     ELSE None
                ELSE IF watch.req = req THEN [watch EXCEPT !.again = TRUE]
                ELSE watch
    /\ registries' = regs
    /\ op' = None
    /\ UNCHANGED <<fs, fsOrder, registriesConfig, constructed, thrown>>
    /\ UNCHANGED <<dispatchVars, formatVars, decoratorVars>>

\* list_registries with the registries reversed in place before they are listed
CallListRegistriesReversing ==
    Responded(Request("list_registries", "", ""),
              ListRegistriesTool(Reverse(registries)), Reverse(registries))

CallListRegistries ==
    Responded(Request("list_registries", "", ""),
              ListRegistriesTool(registries), registries)

CallGetRegistry(name) ==
    Responded(Request("get_registry", name, ""),
              GetRegistryTool(registries, name), registries)

CallListComponents(registryName) ==
    Responded(Request("list_components", registryName, ""),
              ListComponentsTool(registries, registryName), registries)

CallGetComponentDocs(registryName, componentName) ==
    Responded(Request("get_component_docs", registryName, componentName),
              GetComponentDocsTool(registries, fs, registryName, componentName),
              registries)

CallGetComponentStories(registryName, componentName) ==
    Responded(Request("get_component_stories", registryName, componentName),
              GetComponentStoriesTool(registries, fs, registryName, componentName),
              registries)

\* getFileContent called directly
CallGetFileContent(filePath) ==
    Responded([tool |-> "getFileContent", filePath |-> filePath],
              GetFileContent(fs, filePath), registries)

NextCatalog ==
    \/ \E registry \in AddableRegistries : AddRegistry(registry)
    \/ \E name \in RegistryNameArgs, registry \in AddableRegistries :
           UpdateRegistry(name, registry)
    \/ \E name \in RegistryNameArgs : DeleteRegistry(name)
    \/ \E p \in {ReadmePath}, content \in WritableContents : WriteFile(p, content)
    \/ \E p \in {ReadmePath, "/w/src/components/ui/Button"} : RemoveFile(p)
    \/ CallListRegistries
    \/ \E name \in RegistryNameArgs : CallGetRegistry(name)
    \/ \E name \in RegistryNameArgs : CallListComponents(name)
    \/ \E registryName \in RegistryNameArgs, componentName \in ComponentNameArgs :
           CallGetComponentDocs(registryName, componentName)
    \/ \E registryName \in RegistryNameArgs, componentName \in ComponentNameArgs :
           CallGetComponentStories(registryName, componentName)
    \/ \E filePath \in {ReadmePath, "/w/src/components/ui/Button",
                         "/path/to/nonexistent.md"} : CallGetFileContent(filePath)

SpecCatalog == InitCatalog /\ [][NextCatalog]_vars

(***************************************************************************)
(* Properties of the catalog tools (specification SpecCatalog)             *)
(***************************************************************************)
RegistryKnown(name) == \E i \in 1..Len(registries) : registries[i].name = name

\* some registry of that name lists a component of that name
ComponentKnown(registryName, componentName) ==
    \E i \in 1..Len(registries) :
        /\ registries[i].name = registryName
        /\ registries[i].components # Undefined
        /\ \E k \in 1..Len(registries[i].components.a) :
               registries[i].components.a[k].name = componentName

ComponentNotFoundText(registryName, componentName) ==
    "Component '" \o componentName \o "' not found in registry '" \o registryName \o "'"

\* C7: get_registry, get_component_docs and get_component_stories called with
\* a registry name or a component name that the catalog does not hold answer
\* (they do not throw) with one text block holding the not-found message.
C7_UnknownNamesNotFound ==
    resp # None =>
        LET req == resp.req
        IN /\ (req.tool = "get_registry" /\ ~RegistryKnown(req.registryName)) =>
                  resp.result =
                      [content |->
                          << [type |-> "text",
                              text |-> "Registry '" \o req.registryName \o "' not found"] >>]
           /\ (/\ req.tool \in {"get_component_docs", "get_component_stories"}
               /\ ~ComponentKnown(req.registryName, req.componentName)) =>
                  resp.result =
                      [content |->
                          << [type |-> "text",
                              text |-> ComponentNotFoundText(req.registryName,
                                                             req.componentName)] >>]

\* get_component_stories has answered for a registry that exists and a
\* component that it does not hold
C7_Witness ==
    /\ resp # None
    /\ resp.req.tool = "get_component_stories"
    /\ RegistryKnown(resp.req.registryName)
    /\ ~ComponentKnown(resp.req.registryName, resp.req.componentName)
    /\ Len(registries) = 2

\* the component that a name pair designates: the first of that name in the
\* first registry of that name
Designated(registryName, componentName) ==
    LET ri == {i \in 1..Len(registries) : registries[i].name = registryName}
        r == registries[CHOOSE i \in ri : \A j \in ri : i <= j]
        ci == {k \in 1..Len(r.components.a) : r.components.a[k].name = componentName}
    IN r.components.a[CHOOSE k \in ci : \A j \in ci : k <= j]

PairPresent(registryName, componentName) ==
    /\ RegistryKnown(registryName)
    /\ LET ri == {i \in 1..Len(registries) : registries[i].name = registryName}
           r == registries[CHOOSE i \in ri : \A j \in ri : i <= j]
       IN /\ r.components # Undefined
          /\ \E k \in 1..Len(r.components.a) : r.components.a[k].name = componentName

OnDisk(p) == IF p \in DOMAIN fs /\ fs[p].kind = "file" THEN fs[p].content ELSE ""

HasDocs(c) == c.markdownFilePaths # Undefined /\ Len(c.markdownFilePaths.a) >= 1

DocsText(componentName, c) ==
    "Documentation for " \o componentName \o ":\n\n"
    \o Join([k \in 1..Len(c.markdownFilePaths.a) |-> OnDisk(c.markdownFilePaths.a[k])],
            "\n---\n")

NoDocsText(componentName) ==
    "No documentation available for component '" \o componentName \o "'"

\* C8: get_component_docs on a name pair present in the catalog answers with
\* the documentation text (the files' contents joined by the delimiter) exactly
\* when the component has at least one documentation path, and with the 'No
\* documentation available' message exactly when its list is empty or absent;
\* one and only one of the two is the answer.
C8_DocsIffPaths ==
    (/\ resp # None
     /\ resp.req.tool = "get_component_docs"
     /\ PairPresent(resp.req.registryName, resp.req.componentName)) =>
        LET name == resp.req.componentName
            c == Designated(resp.req.registryName, name)
            text == resp.result.content[1].text
            isDocs == HasDocs(c) /\ text = DocsText(name, c)
            isNoDocs == text = NoDocsText(name)
        IN /\ Len(resp.result.content) = 1
           /\ resp.result.content[1].type = "text"
           /\ isDocs <=> HasDocs(c)
           /\ isNoDocs <=> ~HasDocs(c)
           /\ isDocs # isNoDocs

\* documentation was returned for a component with a path, after the catalog
\* was changed by hand
C8_Witness ==
    /\ resp # None
    /\ resp.req.tool = "get_component_docs"
    /\ PairPresent(resp.req.registryName, resp.req.componentName)
    /\ HasDocs(Designated(resp.req.registryName, resp.req.componentName))
    /\ Len(registries) = 2
    /\ resp.result.content[1].text = "Documentation for Button:\n\nv2"

\* the 'No documentation available' answer, for an empty list
C8_WitnessNoDocs ==
    /\ resp # None
    /\ resp.req.tool = "get_component_docs"
    /\ PairPresent(resp.req.registryName, resp.req.componentName)
    /\ ~HasDocs(Designated(resp.req.registryName, resp.req.componentName))

\* a step in which a tool answered
CallStep == resp' # None /\ resp' # resp

\* C10: a call of list_registries or get_component_docs leaves the catalog and
\* the disk as they are, and returns what the earlier call with the same
\* arguments returned since the catalog and the disk last changed.
C10_Idempotent ==
    [][(CallStep /\ resp'.req.tool \in {"list_registries", "get_component_docs"}) =>
          /\ registries' = registries
          /\ fs' = fs
          /\ (watch # None /\ watch.req = resp'.req) => resp'.result = watch.result]_vars

\* get_component_docs has answered a second time with the same arguments
C10_Witness ==
    /\ watch # None
    /\ resp # None
    /\ watch.req.tool = "get_component_docs"
    /\ watch.again
    /\ resp.req = watch.req
    /\ resp.result = watch.result
    /\ Len(registries) = 2

(***************************************************************************)
(* JavaScript values as the dispatcher sees them.  An object is its list   *)
(* of own enumerable properties in insertion order.                        *)
(***************************************************************************)
JNull == [t |-> "null"]
JNum(n) == [t |-> "number", n |-> n]
JStr(s) == [t |-> "string", s |-> s]
JBool(b) == [t |-> "boolean", b |-> b]
Prop(k, v) == [k |-> k, v |-> v]
Obj(props) == [t |-> "object", p |-> props]
\* a function object, such as a method inherited from Object.prototype
Fn(name) == [t |-> "function", name |-> name]
\* a Symbol
Sym(description) == [t |-> "symbol", description |-> description]
\* an Error instance
Err(message) == [t |-> "error", message |-> message]
\* an object that refers to itself
Circular == [t |-> "circular"]

\* typeof v === 'object'
TypeofObject(v) == v.t \in {"object", "array", "null", "error", "circular"}

\* Array.isArray(v)
IsArray(v) == v.t = "array"

\* !v
Falsy(v) ==
    \/ v.t \in {"undefined", "null"}
    \/ v.t = "number" /\ v.n = 0
    \/ v.t = "string" /\ v.s = ""
    \/ v.t = "boolean" /\ ~v.b

\* Object.keys(v) for an object or an array
Keys(v) ==
    IF v.t = "object" THEN [i \in 1..Len(v.p) |-> v.p[i].k]
    ELSE IF v.t = "array" THEN [i \in 1..Len(v.a) |-> ToString(i - 1)]
    ELSE <<>>

\* Object.prototype.hasOwnProperty.call(v, key) for an object
HasKey(v, key) == v.t = "object" /\ \E i \in 1..Len(v.p) : v.p[i].k = key

\* the property names every ordinary object inherits from Object.prototype
ObjectPrototypeKeys ==
    {"constructor", "hasOwnProperty", "isPrototypeOf", "propertyIsEnumerable",
     "toLocaleString", "toString", "valueOf", "__proto__",
     "__defineGetter__", "__defineSetter__", "__lookupGetter__", "__lookupSetter__"}

\* key in v, for a v that typeof reports as a non-null object: an own
\* property name or one inherited from Object.prototype
In(v, key) ==
    LET own == CASE v.t = "object" -> {v.p[i].k : i \in 1..Len(v.p)}
                 [] v.t = "array" -> {ToString(i - 1) : i \in 1..Len(v.a)} \cup {"length"}
                 [] v.t = "error" -> {"message", "stack"}
                 [] v.t = "circular" -> {"self"}
                 [] OTHER -> {}
    IN key \in own \/ key \in ObjectPrototypeKeys

\* v[key] for an object: the own property, else the inherited one, else undefined
Get(v, key) ==
    IF HasKey(v, key) THEN v.p[CHOOSE i \in 1..Len(v.p) : v.p[i].k = key].v
    ELSE IF key = "__proto__" THEN Obj(<<>>)
    ELSE IF key \in ObjectPrototypeKeys THEN Fn(key)
    ELSE Undefined

\* v[key] = value: a new property goes last, an existing one keeps its place
Put(v, key, value) ==
    IF HasKey(v, key)
    THEN Obj([i \in 1..Len(v.p) |-> IF v.p[i].k = key THEN Prop(key, value) ELSE v.p[i]])
    ELSE Obj(Append(v.p, Prop(key, value)))

\* String(v)
RECURSIVE StringOf(_)
StringOf(v) ==
    LET element(x) == IF x.t \in {"undefined", "null"} THEN "" ELSE StringOf(x)
    IN CASE v.t = "string" -> v.s
         [] v.t = "number" -> ToString(v.n)
         [] v.t = "boolean" -> IF v.b THEN "true" ELSE "false"
         [] v.t = "undefined" -> "undefined"
         [] v.t = "null" -> "null"
         [] v.t = "error" -> IF v.message = "" THEN "Error" ELSE "Error: " \o v.message
         [] v.t = "array" -> Join([i \in 1..Len(v.a) |-> element(v.a[i])], ",")
         [] v.t = "function" -> "function " \o v.name \o "() { [native code] }"
         [] v.t = "symbol" -> "Symbol(" \o v.description \o ")"
         [] OTHER -> "[object Object]"

(***************************************************************************)
(* JSON.stringify(value, null, 2) and JSON.parse                           *)
(***************************************************************************)
\* the characters of a string literal's body
RECURSIVE Escape(_)
Escape(s) ==
    IF Len(s) = 0 THEN ""
    ELSE LET ch == CharAt(s, 1)
             out == IF ch = "\"" THEN "\\" \o "\""
                    ELSE IF ch = "\\" THEN "\\" \o "\\"
                    ELSE IF ch = "\n" THEN "\\" \o "n"
                    ELSE ch
         IN out \o Escape(SubSeq(s, 2, Len(s)))

QuoteString(s) == "\"" \o Escape(s) \o "\""

\* JSON.stringify throws on value
RECURSIVE StringifyThrows(_)
StringifyThrows(v) ==
    \/ v.t = "circular"
    \/ v.t = "array" /\ \E i \in 1..Len(v.a) : StringifyThrows(v.a[i])
    \/ v.t = "object" /\ \E i \in 1..Len(v.p) : StringifyThrows(v.p[i].v)

\* the text of a value that has one, at the given indentation
RECURSIVE StringifyText(_, _)
StringifyText(v, indent) ==
    LET inner == indent \o "  "
        element(x) == IF x.t \in {"undefined", "function", "symbol"} THEN "null"
                      ELSE StringifyText(x, inner)
        kept(prop) == prop.v.t \notin {"undefined", "function", "symbol"}
        props == IF v.t = "object" THEN SelectSeq(v.p, kept) ELSE <<>>
        member(prop) == QuoteString(prop.k) \o ": " \o StringifyText(prop.v, inner)
    IN CASE v.t = "null" -> "null"
         [] v.t = "number" -> ToString(v.n)
         [] v.t = "boolean" -> IF v.b THEN "true" ELSE "false"
         [] v.t = "string" -> QuoteString(v.s)
         [] v.t = "error" -> "{}"
         [] v.t = "array" ->
                IF Len(v.a) = 0 THEN "[]"
                ELSE "[\n" \o inner
                     \o Join([i \in 1..Len(v.a) |-> element(v.a[i])], ",\n" \o inner)
                     \o "\n" \o indent \o "]"
         [] v.t = "object" ->
                IF Len(props) = 0 THEN "{}"
                ELSE "{\n" \o inner
                     \o Join([i \in 1..Len(props) |-> member(props[i])], ",\n" \o inner)
                     \o "\n" \o indent \o "}"

\* JSON.stringify(v, null, 2): a string, or undefined for undefined and functions
Stringify(v) ==
    IF v.t \in {"undefined", "function", "symbol"} THEN Undefined ELSE JStr(StringifyText(v, ""))

ParseError == [t |-> "syntaxerror"]

Parsed(v, next) == [v |-> v, next |-> next]

RECURSIVE SkipSpace(_, _)
SkipSpace(s, i) ==
    IF i <= Len(s) /\ CharAt(s, i) \in {" ", "\n"} THEN SkipSpace(s, i + 1) ELSE i

\* the digit a character stands for, or -1
DigitValue(ch) ==
    LET hits == {d \in 0..9 : CharAt("0123456789", d + 1) = ch}
    IN IF hits = {} THEN -1 ELSE CHOOSE d \in hits : TRUE

RECURSIVE ParseDigits(_, _, _)
ParseDigits(s, i, acc) ==
    IF i <= Len(s) /\ DigitValue(CharAt(s, i)) >= 0
    THEN ParseDigits(s, i + 1, 10 * acc + DigitValue(CharAt(s, i)))
    ELSE Parsed(JNum(acc), i)

\* the body of a string literal from position i, up to its closing quote
RECURSIVE ParseChars(_, _, _)
ParseChars(s, i, acc) ==
    IF i > Len(s) THEN Parsed(ParseError, i)
    ELSE LET ch == CharAt(s, i)
         IN IF ch = "\"" THEN Parsed(JStr(acc), i + 1)
            ELSE IF ch = "\\"
            THEN IF i + 1 > Len(s) THEN Parsed(ParseError, i)
                 ELSE LET e == CharAt(s, i + 1)
                      IN ParseChars(s, i + 2,
                                    acc \o (IF e = "n" THEN "\n" ELSE e))
            ELSE ParseChars(s, i + 1, acc \o ch)

RECURSIVE ParseValue(_, _)
RECURSIVE ParseElements(_, _, _)
RECURSIVE ParseMembers(_, _, _)

\* the value that starts at position i (after white space)
ParseValue(s, i0) ==
    LET i == SkipSpace(s, i0)
        StartsAt(t, j, word) ==
            j + Len(word) - 1 <= Len(t) /\ SubSeq(t, j, j + Len(word) - 1) = word
    IN IF i > Len(s) THEN Parsed(ParseError, i)
       ELSE LET ch == CharAt(s, i)
            IN CASE ch = "\"" -> ParseChars(s, i + 1, "")
                 [] DigitValue(ch) >= 0 -> ParseDigits(s, i, 0)
                 [] StartsAt(s, i, "null") -> Parsed(JNull, i + 4)
                 [] StartsAt(s, i, "true") -> Parsed(JBool(TRUE), i + 4)
                 [] StartsAt(s, i, "false") -> Parsed(JBool(FALSE), i + 5)
                 [] ch = "[" ->
                        LET j == SkipSpace(s, i + 1)
                        IN IF j <= Len(s) /\ CharAt(s, j) = "]"
                           THEN Parsed(Arr(<<>>), j + 1)
                           ELSE ParseElements(s, j, <<>>)
                 [] ch = "{" ->
                        LET j == SkipSpace(s, i + 1)
                        IN IF j <= Len(s) /\ CharAt(s, j) = "}"
                           THEN Parsed(Obj(<<>>), j + 1)
                           ELSE ParseMembers(s, j, Obj(<<>>))
                 [] OTHER -> Parsed(ParseError, i)

\* the elements of an array from position i, up to its closing bracket
ParseElements(s, i, acc) ==
    LET e == ParseValue(s, i)
        j == SkipSpace(s, e.next)
    IN IF e.v = ParseError \/ j > Len(s) THEN Parsed(ParseError, j)
       ELSE IF CharAt(s, j) = "," THEN ParseElements(s, j + 1, Append(acc, e.v))
       ELSE IF CharAt(s, j) = "]" THEN Parsed(Arr(Append(acc, e.v)), j + 1)
       ELSE Parsed(ParseError, j)

\* the members of an object from position i, up to its closing brace
ParseMembers(s, i, acc) ==
    LET i1 == SkipSpace(s, i)
        key == IF i1 <= Len(s) /\ CharAt(s, i1) = "\""
               THEN ParseChars(s, i1 + 1, "")
               ELSE Parsed(ParseError, i1)
        i2 == SkipSpace(s, key.next)
    IN IF key.v = ParseError \/ i2 > Len(s) \/ CharAt(s, i2) # ":"
       THEN Parsed(ParseError, i2)
       ELSE LET e == ParseValue(s, i2 + 1)
                j == SkipSpace(s, e.next)
            IN IF e.v = ParseError \/ j > Len(s) THEN Parsed(ParseError, j)
               ELSE IF CharAt(s, j) = ","
               THEN ParseMembers(s, j + 1, Put(acc, key.v.s, e.v))
               ELSE IF CharAt(s, j) = "}"
               THEN Parsed(Put(acc, key.v.s, e.v), j + 1)
               ELSE Parsed(ParseError, j)

\* JSON.parse(text): the value, or ParseError where JSON.parse throws; a text
\* that is not a string is first converted to one
JsonParse(text) ==
    LET s == StringOf(text)
        r == ParseValue(s, 1)
    IN IF r.v = ParseError THEN ParseError
       ELSE IF SkipSpace(s, r.next) <= Len(s) THEN ParseError
       ELSE r.v

(***************************************************************************)
(* McpService.formatToolResult                                             *)
(***************************************************************************)
\* { content: [ { type: 'text', text } ] }
Envelope(text) ==
    Obj(<<Prop("content",
               Arr(<<Obj(<<Prop("type", JStr("text")), Prop("text", text)>>)>>))>>)

\* result && typeof result === 'object' && 'content' in result
PassesThrough(result) == ~Falsy(result) /\ TypeofObject(result) /\ In(result, "content")

\* formatToolResult throws: the serialization of the result throws
FormatToolResultThrows(result) == ~PassesThrough(result) /\ StringifyThrows(result)

\* the TypeError JSON.stringify throws on a circular structure
CircularError == Err("Converting circular structure to JSON")

\* the value formatToolResult returns when it does not throw
FormatToolResult(result) ==
    IF PassesThrough(result) THEN result ELSE Envelope(Stringify(result))

(***************************************************************************)
(* formatToolResult applied to returned values                             *)
(***************************************************************************)
MaxArrayLen == 2
MaxKeys == 2

Atoms ==
    {Undefined, JNull, JNum(0), JNum(123), JStr(""), JStr("test"), JBool(FALSE)}

SeqsUpTo(S, n) == UNION {[1..k -> S] : k \in 0..n}

Injective(f) == \A i, j \in DOMAIN f : f[i] = f[j] => i = j

ObjectsOf(K, S, n) ==
    {Obj([i \in DOMAIN ks |-> Prop(ks[i], vs[i])]) :
        <<ks, vs>> \in {<<k, v>> \in SeqsUpTo(K, n) \X SeqsUpTo(S, n) :
                            Injective(k) /\ Len(k) = Len(v)}}

\* the values of mcp.service.spec's formatToolResult tests
TestObject == Obj(<<Prop("data", JStr("test")), Prop("value", JNum(123))>>)
TestEnvelope == Envelope(JStr("test"))

ReturnedValues ==
    Atoms \cup {Arr(a) : a \in SeqsUpTo(Atoms, MaxArrayLen)}
          \cup ObjectsOf({"data", "value", "content"}, Atoms, MaxKeys)
          \cup {TestObject, TestEnvelope, JStr("simple string"),
                Arr(<<Obj(<<Prop("id", JNum(1))>>), Obj(<<Prop("id", JNum(2))>>)>>)}

InitFormat ==
    /\ fs = FsOf({})
    /\ fsOrder = "asc"
    /\ registriesConfig = <<>>
    /\ registries = <<>>
    /\ constructed = FALSE
    /\ thrown = None
    /\ CatalogIdle
    /\ DispatchIdle
    /\ fmtIn \in ReturnedValues
    /\ fmtOut = None
    /\ classes = None
    /\ metadata = None

\* service['formatToolResult'](fmtIn)
Format ==
    /\ fmtOut = None
    /\ fmtOut' = FormatToolResult(fmtIn)
    /\ UNCHANGED <<fmtIn, discoveryVars, catalogVars, dispatchVars, decoratorVars>>

SpecFormat == InitFormat /\ [][Format]_vars

\* the text of an envelope that holds exactly one block of type 'text'
IsSingleText(v) ==
    /\ v.t = "object"
    /\ Keys(v) = <<"content">>
    /\ Get(v, "content").t = "array"
    /\ Len(Get(v, "content").a) = 1
    /\ Get(v, "content").a[1].t = "object"
    /\ Keys(Get(v, "content").a[1]) = <<"type", "text">>
    /\ Get(Get(v, "content").a[1], "type") = JStr("text")

SingleText(v) == Get(Get(v, "content").a[1], "text")

\* a content envelope: an object whose content is a list of text blocks
IsTextBlock(b) ==
    b.t = "object" /\ Get(b, "type") = JStr("text") /\ Get(b, "text").t = "string"

ShapedAsEnvelope(v) ==
    /\ v.t = "object"
    /\ HasKey(v, "content")
    /\ Get(v, "content").t = "array"
    /\ \A i \in 1..Len(Get(v, "content").a) : IsTextBlock(Get(v, "content").a[i])

\* C3: formatToolResult returns an input shaped as a content envelope
\* unchanged, and for every other returned value returns an envelope with
\* exactly one block of type 'text' whose text is a string that parses back
\* to the value.
C3_FormatRoundTrip ==
    fmtOut # None =>
        IF ShapedAsEnvelope(fmtIn) THEN fmtOut = fmtIn
        ELSE /\ IsSingleText(fmtOut)
             /\ SingleText(fmtOut).t = "string"
             /\ JsonParse(SingleText(fmtOut)) = fmtIn

\* formatToolResult(undefined) has returned a block whose text is undefined
C3_UndefinedText ==
    /\ fmtIn = Undefined
    /\ fmtOut # None
    /\ IsSingleText(fmtOut)
    /\ SingleText(fmtOut) = Undefined

(***************************************************************************)
(* McpService.transformArgs                                                *)
(***************************************************************************)
\* the declaration @McpTool records for a method
ToolMetadata(name, methodName, paramMap) ==
    [name |-> name, methodName |-> methodName, paramMap |-> paramMap]

\* the loop over Object.entries(tool.paramMap), from entry i on
RECURSIVE ApplyParamMap(_, _, _, _)
ApplyParamMap(paramMap, i, args, transformedArgs) ==
    IF i > Len(paramMap.p) THEN transformedArgs
    ELSE LET mcpParam == paramMap.p[i].k
             methodParam == paramMap.p[i].v.s
         IN ApplyParamMap(paramMap, i + 1, args,
                IF In(args, mcpParam)
                THEN Put(transformedArgs, methodParam, Get(args, mcpParam))
                ELSE transformedArgs)

\* transformArgs without the test for an argument object with zero keys
TransformArgsKeepEmpty(args, tool) ==
    IF Falsy(args) THEN Undefined
    ELSE IF Falsy(tool.paramMap)
    THEN IF TypeofObject(args) /\ ~IsArray(args)
         THEN IF Len(Keys(args)) = 1 THEN Get(args, Keys(args)[1]) ELSE args
         ELSE args
    ELSE LET transformedArgs == ApplyParamMap(tool.paramMap, 1, args, Obj(<<>>))
             keys == Keys(transformedArgs)
         IN IF Len(keys) = 1 THEN Get(transformedArgs, keys[1]) ELSE transformedArgs

\* transformArgs that unwraps the first value whatever the number of keys
TransformArgsFirstValue(args, tool) ==
    IF Falsy(args) \/ (TypeofObject(args) /\ Len(Keys(args)) = 0) THEN Undefined
    ELSE IF Falsy(tool.paramMap)
    THEN IF TypeofObject(args) /\ ~IsArray(args)
         THEN Get(args, Keys(args)[1])
         ELSE args
    ELSE LET transformedArgs == ApplyParamMap(tool.paramMap, 1, args, Obj(<<>>))
             keys == Keys(transformedArgs)
         IN IF Len(keys) = 1 THEN Get(transformedArgs, keys[1]) ELSE transformedArgs

\* transformArgs(args, tool), for args that are undefined or an object
TransformArgs(args, tool) ==
    IF Falsy(args) \/ (TypeofObject(args) /\ Len(Keys(args)) = 0) THEN Undefined
    ELSE IF Falsy(tool.paramMap)
    THEN IF TypeofObject(args) /\ ~IsArray(args)
         THEN IF Len(Keys(args)) = 1 THEN Get(args, Keys(args)[1]) ELSE args
         ELSE args
    ELSE LET transformedArgs == ApplyParamMap(tool.paramMap, 1, args, Obj(<<>>))
             keys == Keys(transformedArgs)
         IN IF Len(keys) = 1 THEN Get(transformedArgs, keys[1]) ELSE transformedArgs

(***************************************************************************)
(* Providers, their classes, and the tools declared on them                *)
(***************************************************************************)
ParamMap(entries) == Obj([i \in DOMAIN entries |-> Prop(entries[i][1], JStr(entries[i][2]))])

\* Reflect.getMetadata(MCP_TOOL_METADATA, constructor) || [], per class
ToolMetadataOf(class) ==
    CASE class = "MockToolService" ->
            <<ToolMetadata("list_mock_users", "getAllUsers", Undefined),
              ToolMetadata("get_mock_user", "getUserById", Undefined),
              ToolMetadata("create_mock_user", "createUser", Undefined),
              ToolMetadata("search_mock_users", "searchUsers", Undefined),
              ToolMetadata("get_mock_user_stats", "getUserStats", Undefined)>>
      [] class = "FileToolService" ->
            <<ToolMetadata("read_file", "readFile",
                           ParamMap(<<<<"filepath", "filePath">>, <<"userid", "userId">>>>)),
              ToolMetadata("probe", "probe", ParamMap(<<<<"ext", "internal">>>>)),
              ToolMetadata("define_class", "defineClass",
                           ParamMap(<<<<"name", "className">>, <<"constructor", "ctor">>>>)),
              ToolMetadata("move_file", "moveFile",
                           ParamMap(<<<<"from", "path">>, <<"to", "path">>>>)),
              ToolMetadata("disabled_tool", "disabled", Undefined)>>
      [] class = "ArchiveToolService" ->
            <<ToolMetadata("read_file", "readArchive", Undefined)>>
      [] class = "MyService" -> <<ToolMetadata("my_tool", "myMethod", Undefined)>>
      [] OTHER -> <<>>

\* the property names of an instance of the class that hold a function
MethodsOf(class) ==
    CASE class = "MockToolService" ->
            {"getAllUsers", "getUserById", "createUser", "searchUsers", "getUserStats",
             "resetUsers"}
      [] class = "FileToolService" -> {"readFile", "probe", "defineClass", "moveFile"}
      [] class = "ArchiveToolService" -> {"readArchive"}
      [] class = "MyService" -> {"myMethod"}
      [] OTHER -> {}

Instance(class) == [t |-> "instance", class |-> class]

InstanceWrapper(name, instance) == [name |-> name, instance |-> instance]

\* the test module of mcp.service.spec: McpService and MockToolService
TestProviders ==
    <<InstanceWrapper("McpService", Instance("McpService")),
      InstanceWrapper("MockToolService", Instance("MockToolService"))>>

\* an application with a provider not yet instantiated and a value provider
AppProviders ==
    <<InstanceWrapper("ConfigService", Instance("ConfigService")),
      InstanceWrapper("LazyService", JNull),
      InstanceWrapper("APP_NAME", JStr("design-system")),
      InstanceWrapper("MockToolService", Instance("MockToolService")),
      InstanceWrapper("FileToolService", Instance("FileToolService"))>>

FileProviders == <<InstanceWrapper("FileToolService", Instance("FileToolService"))>>

\* one tool class provided under two tokens, each with its own instance
TwinProviders ==
    <<InstanceWrapper("MockToolService", Instance("MockToolService")),
      InstanceWrapper("MOCK_TOOLS", Instance("MockToolService"))>>

\* two classes that each declare a tool named read_file
ClashProviders ==
    <<InstanceWrapper("FileToolService", Instance("FileToolService")),
      InstanceWrapper("ArchiveToolService", Instance("ArchiveToolService"))>>

ProviderChoices ==
    {TestProviders, AppProviders, FileProviders, TwinProviders, ClashProviders}

\* server.registerTool(tool.name, {...}, handler): the handler closes over
\* the declaration and the instance
Registration(tool, w) == [tool |-> tool, provider |-> w]

\* the inner loop of discoverAndRegisterTools over one instance's declarations
RECURSIVE RegisterDeclared(_, _, _, _)
RegisterDeclared(toolMetadata, i, w, instance) ==
    IF i > Len(toolMetadata) THEN <<>>
    ELSE (IF toolMetadata[i].methodName \in MethodsOf(instance.class)
          THEN <<Registration(toolMetadata[i], w)>>
          ELSE <<>>)
         \o RegisterDeclared(toolMetadata, i + 1, w, instance)

\* discoverAndRegisterTools: the calls to server.registerTool, in order
RECURSIVE DiscoverAndRegisterTools(_, _)
DiscoverAndRegisterTools(wrappers, w) ==
    IF w > Len(wrappers) THEN <<>>
    ELSE LET instance == wrappers[w].instance
         IN (IF Falsy(instance) \/ instance.t = "string" THEN <<>>
             ELSE RegisterDeclared(ToolMetadataOf(instance.class), 1, w, instance))
            \o DiscoverAndRegisterTools(wrappers, w + 1)

(***************************************************************************)
(* The handler registered for a tool, and the calls the server dispatches  *)
(***************************************************************************)
MaxCalls == 1

Slots == 1..MaxCalls

\* the response the catch block returns
ErrorResponse(error) ==
    Envelope(JStr("Error: " \o (IF error.t = "error" THEN error.message
                                ELSE StringOf(error))))

\* the handler's catch block: the log line `${error}`, which throws for a
\* Symbol and so rejects the handler's promise, then the response
CatchBlock(error) ==
    IF error.t = "symbol"
    THEN [t |-> "rejection", error |-> Err("Cannot convert a Symbol value to a string")]
    ELSE ErrorResponse(error)

User(id, name) ==
    Obj(<<Prop("id", JNum(id)), Prop("name", JStr(name))>>)

\* the argument objects a client sends to a tool, a missing one included
ArgumentsFor(name) ==
    CASE name = "list_mock_users" -> {Undefined, Obj(<<>>)}
      [] name = "get_mock_user" -> {Obj(<<Prop("id", JNum(1))>>), Obj(<<>>)}
      [] name = "create_mock_user" ->
            {Obj(<<Prop("name", JStr("Al")), Prop("email", JStr("al@example.com"))>>)}
      [] name = "search_mock_users" -> {Obj(<<Prop("query", JStr("al"))>>)}
      [] name = "get_mock_user_stats" -> {Obj(<<>>)}
      [] name = "read_file" ->
            {Obj(<<Prop("filepath", JStr("/a.md"))>>),
             Obj(<<Prop("filepath", JStr("/a.md")), Prop("userid", JNum(7))>>),
             Obj(<<Prop("userid", JNum(7)), Prop("filepath", JStr("/a.md"))>>),
             Obj(<<Prop("path", JStr("/a.md"))>>),
             Obj(<<>>)}
      [] name = "probe" -> {Obj(<<Prop("ext", JNum(5))>>), Undefined}
      [] name = "define_class" ->
            {Obj(<<Prop("name", JStr("Foo"))>>),
             Obj(<<Prop("name", JStr("Foo")), Prop("constructor", JStr("init"))>>)}
      [] name = "move_file" ->
            {Obj(<<Prop("from", JStr("/a")), Prop("to", JStr("/b"))>>),
             Obj(<<Prop("to", JStr("/b"))>>)}
      [] name = "my_tool" ->
            {Obj(<<Prop("param1", JStr("a")), Prop("param2", JNum(2))>>)}
      [] OTHER -> {Obj(<<>>)}

\* what a target method returns or resolves with
MethodResults ==
    {Undefined, JNull, JNum(0), JStr("ok"), Arr(<<User(1, "Alice")>>),
     TestObject, TestEnvelope, Obj(<<Prop("content", JStr("done"))>>), Circular}

\* what a target method throws or rejects with
MethodErrors ==
    {Err("boom"), Err(""), JStr("oops"), JNum(404), Undefined, Obj(<<>>), Sym("busy")}

InitDispatch ==
    /\ fs = FsOf({})
    /\ fsOrder = "asc"
    /\ registriesConfig = <<>>
    /\ registries = <<>>
    /\ constructed = FALSE
    /\ thrown = None
    /\ CatalogIdle
    /\ FormatIdle
    /\ providers \in ProviderChoices
    /\ phase = "created"
    /\ registered = <<>>
    /\ calls = [slot \in Slots |-> [pc |-> "idle"]]

\* the positions of the scan at which server.registerTool is handed a name
\* it was handed before, where McpServer throws 'Tool ... is already registered'
RegisterToolThrows(scan) ==
    {i \in 1..Len(scan) : \E j \in 1..(i - 1) : scan[j].tool.name = scan[i].tool.name}

\* onApplicationBootstrap that starts server.connect and leaves the scan out
BootstrapWithoutScan ==
    /\ phase = "created"
    /\ phase' = "connecting"
    /\ UNCHANGED <<providers, registered, calls, discoveryVars, catalogVars, formatVars, decoratorVars>>

\* onApplicationBootstrap up to its await: the scan, then server.connect
\* starts; a registerTool that throws ends the scan and the bootstrap
Bootstrap ==
    /\ phase = "created"
    /\ LET scan == DiscoverAndRegisterTools(providers, 1)
           repeated == RegisterToolThrows(scan)
       IN IF repeated = {}
          THEN registered' = scan /\ phase' = "connecting"
          ELSE /\ registered' = SubSeq(scan, 1, CHOOSE i \in repeated : \A j \in repeated : i <= j)
               /\ phase' = "failed"
    /\ UNCHANGED <<providers, calls, discoveryVars, catalogVars, formatVars, decoratorVars>>

\* server.connect resolves
Connected ==
    /\ phase = "connecting"
    /\ phase' = "connected"
    /\ UNCHANGED <<providers, registered, calls, discoveryVars, catalogVars, formatVars, decoratorVars>>

Answered(k, args, methodArgs, outcome, caught, response) ==
    [pc |-> "answered", tool |-> k, args |-> args, methodArgs |-> methodArgs,
     outcome |-> outcome, caught |-> caught, response |-> response]

\* the handler of registered[k] runs up to its await: transformArgs, then the
\* call of the target method, which throws or hands back a promise or value
CallStart(slot, k, args) ==
    /\ phase = "connected"
    /\ calls[slot].pc = "idle"
    /\ \A earlier \in DOMAIN calls : earlier < slot => calls[earlier].pc # "idle"
    /\ LET methodArgs == TransformArgs(args, registered[k].tool)
       IN \/ calls' = [calls EXCEPT ![slot] =
                          [pc |-> "awaiting", tool |-> k, args |-> args,
                           methodArgs |-> methodArgs]]
          \/ \E error \in MethodErrors :
                calls' = [calls EXCEPT ![slot] =
                             Answered(k, args, methodArgs,
                                      [kind |-> "throw", value |-> error],
                                      TRUE, CatchBlock(error))]
    /\ UNCHANGED <<providers, phase, registered, discoveryVars, catalogVars, formatVars, decoratorVars>>

\* the awaited promise resolves: formatToolResult, whose throw is caught
CallReturns(slot, result) ==
    /\ calls[slot].pc = "awaiting"
    /\ calls' = [calls EXCEPT ![slot] =
                    Answered(calls[slot].tool, calls[slot].args, calls[slot].methodArgs,
                             [kind |-> "return", value |-> result],
                             FormatToolResultThrows(result),
                             IF FormatToolResultThrows(result)
                             THEN CatchBlock(CircularError)
                             ELSE FormatToolResult(result))]
    /\ UNCHANGED <<providers, phase, registered, discoveryVars, catalogVars, formatVars, decoratorVars>>

\* the catch block answering and taking the failed tool out of the table
CallRejectsUnregistering(slot, error) ==
    /\ calls[slot].pc = "awaiting"
    /\ calls' = [calls EXCEPT ![slot] =
                    Answered(calls[slot].tool, calls[slot].args, calls[slot].methodArgs,
                             [kind |-> "reject", value |-> error],
                             TRUE, CatchBlock(error))]
    /\ registered' = SubSeq(registered, 1, calls[slot].tool - 1)
                     \o SubSeq(registered, calls[slot].tool + 1, Len(registered))
    /\ UNCHANGED <<providers, phase, discoveryVars, catalogVars, formatVars, decoratorVars>>

\* the awaited promise rejects: the catch block answers
CallRejects(slot, error) ==
    /\ calls[slot].pc = "awaiting"
    /\ calls' = [calls EXCEPT ![slot] =
                    Answered(calls[slot].tool, calls[slot].args, calls[slot].methodArgs,
                             [kind |-> "reject", value |-> error],
                             TRUE, CatchBlock(error))]
    /\ UNCHANGED <<providers, phase, registered, discoveryVars, catalogVars, formatVars, decoratorVars>>

NextDispatch ==
    \/ Bootstrap
    \/ Connected
    \/ \E slot \in DOMAIN calls : \E k \in 1..Len(registered) :
          \E args \in ArgumentsFor(registered[k].tool.name) : CallStart(slot, k, args)
    \/ \E slot \in DOMAIN calls : \E result \in MethodResults : CallReturns(slot, result)
    \/ \E slot \in DOMAIN calls : \E error \in MethodErrors : CallRejects(slot, error)

SpecDispatch == InitDispatch /\ [][NextDispatch]_vars

(***************************************************************************)
(* Several calls in flight on one server                                   *)
(***************************************************************************)
MaxInFlight == 2

\* the service of the decorator's documentation: one tool
MyProviders == <<InstanceWrapper("MyService", Instance("MyService"))>>

InitInFlight ==
    /\ fs = FsOf({})
    /\ fsOrder = "asc"
    /\ registriesConfig = <<>>
    /\ registries = <<>>
    /\ constructed = FALSE
    /\ thrown = None
    /\ CatalogIdle
    /\ FormatIdle
    /\ providers = MyProviders
    /\ phase = "created"
    /\ registered = <<>>
    /\ calls = [slot \in 1..MaxInFlight |-> [pc |-> "idle"]]

SpecInFlight == InitInFlight /\ [][NextDispatch]_vars

(***************************************************************************)
(* Properties of the dispatcher (specification SpecDispatch)               *)
(***************************************************************************)
Started(slot) == calls[slot].pc \in {"awaiting", "answered"}

Answer(slot) == calls[slot].pc = "answered"

ToolOf(slot) == registered[calls[slot].tool].tool

NoArguments(args) == args = Undefined \/ (args.t = "object" /\ Len(args.p) = 0)

\* the message the claim asks for: an Error's message, else the string form
MessageOf(error) == IF error.t = "error" THEN error.message ELSE StringOf(error)

\* the target method threw or rejected, or the formatting of its result threw
Failed(slot) ==
    \/ calls[slot].outcome.kind \in {"throw", "reject"}
    \/ /\ calls[slot].outcome.kind = "return"
       /\ FormatToolResultThrows(calls[slot].outcome.value)

ThrownIn(slot) ==
    IF calls[slot].outcome.kind = "return" THEN CircularError
    ELSE calls[slot].outcome.value

\* C2: when the target method throws or rejects, or the formatting of its
\* result throws, the handler answers with a single text block whose text is
\* 'Error: ' followed by the error's message, or by the string form of a
\* thrown value that is not an Error.
C2_ErrorsBecomeResponses ==
    \A slot \in Slots :
        Answer(slot) /\ Failed(slot) =>
            /\ IsSingleText(calls[slot].response)
            /\ SingleText(calls[slot].response)
                   = JStr("Error: " \o MessageOf(ThrownIn(slot)))

\* the target method has thrown a Symbol and the handler itself has thrown
C2_HandlerRejects ==
    \E slot \in Slots :
        /\ Answer(slot)
        /\ calls[slot].outcome = [kind |-> "throw", value |-> Sym("busy")]
        /\ calls[slot].response.t = "rejection"

\* what holds of thrown values a template literal can convert: the answer is
\* the single text block with the error's message or string form
C2_ConvertibleErrors ==
    \A slot \in Slots :
        Answer(slot) /\ Failed(slot) /\ ThrownIn(slot).t # "symbol" =>
            /\ IsSingleText(calls[slot].response)
            /\ SingleText(calls[slot].response)
                   = JStr("Error: " \o MessageOf(ThrownIn(slot)))

C4_WitnessParamMap ==
    \E slot \in Slots :
        /\ Started(slot)
        /\ ToolOf(slot).name = "read_file"
        /\ calls[slot].args = Obj(<<>>)
        /\ calls[slot].methodArgs = Undefined

\* C5: for a tool without a parameter map, an argument object with exactly
\* one key hands that key's value to the target method, and one with more
\* than one key hands over the argument object itself, unchanged.
C5_NoParamMap ==
    \A slot \in Slots :
        Started(slot) /\ ToolOf(slot).paramMap = Undefined
                      /\ calls[slot].args.t = "object" =>
            /\ Len(calls[slot].args.p) = 1 =>
                  calls[slot].methodArgs = calls[slot].args.p[1].v
            /\ Len(calls[slot].args.p) > 1 =>
                  calls[slot].methodArgs = calls[slot].args

\* create_mock_user has received its two-key argument object as it was sent
C5_Witness ==
    \E slot \in Slots :
        /\ Started(slot)
        /\ ToolOf(slot).name = "create_mock_user"
        /\ Len(calls[slot].args.p) = 2
        /\ calls[slot].methodArgs = calls[slot].args

\* get_mock_user has received the id itself
C5_WitnessUnwrapped ==
    \E slot \in Slots :
        /\ Started(slot)
        /\ ToolOf(slot).name = "get_mock_user"
        /\ calls[slot].args = Obj(<<Prop("id", JNum(1))>>)
        /\ calls[slot].methodArgs = JNum(1)

\* the entries of a parameter map whose external key the call carries
PresentEntries(paramMap, args) ==
    {i \in 1..Len(paramMap.p) : HasKey(args, paramMap.p[i].k)}

TargetNames(paramMap, args) ==
    {paramMap.p[i].v.s : i \in PresentEntries(paramMap, args)}

\* the object the claim describes: the target names of the present entries,
\* each bound to the incoming value, and nothing else
MappedObject(o, paramMap, args) ==
    /\ o.t = "object"
    /\ Injective(Keys(o))
    /\ {o.p[i].k : i \in 1..Len(o.p)} = TargetNames(paramMap, args)
    /\ \A i \in PresentEntries(paramMap, args) :
          HasKey(o, paramMap.p[i].v.s)
              /\ Get(o, paramMap.p[i].v.s) = Get(args, paramMap.p[i].k)

\* C6: for a tool with a parameter map and a non-empty argument object, the
\* target method receives the object that binds, for each external key of
\* the map present in the call, the mapped name to the incoming value and
\* holds nothing else, or that object's only value when it has one key.
C6_ParamMapApplied ==
    \A slot \in Slots :
        Started(slot) /\ ToolOf(slot).paramMap # Undefined
                      /\ ~NoArguments(calls[slot].args) =>
            LET paramMap == ToolOf(slot).paramMap
                args == calls[slot].args
            IN IF Cardinality(TargetNames(paramMap, args)) = 1
               THEN \A i \in PresentEntries(paramMap, args) :
                       calls[slot].methodArgs = Get(args, paramMap.p[i].k)
               ELSE MappedObject(calls[slot].methodArgs, paramMap, args)

\* define_class called with a name only has handed over an object that also
\* binds ctor, to the constructor every object inherits
C6_InheritedKey ==
    \E slot \in Slots :
        /\ Started(slot)
        /\ ToolOf(slot).name = "define_class"
        /\ calls[slot].args = Obj(<<Prop("name", JStr("Foo"))>>)
        /\ calls[slot].methodArgs
               = Obj(<<Prop("className", JStr("Foo")), Prop("ctor", Fn("constructor"))>>)

(***************************************************************************)
(* Properties of the bootstrap (specification SpecDispatch)                *)
(***************************************************************************)
\* C11: in onApplicationBootstrap the scan that registers the tools has run
\* to completion before server.connect starts, no tool is registered once
\* the connection has started, and no call is dispatched before the
\* registration has finished.
C11_ScanBeforeConnect ==
    /\ [](phase \in {"connecting", "connected"} =>
              registered = DiscoverAndRegisterTools(providers, 1))
    /\ [][registered' # registered => phase = "created"]_vars
    /\ [](\A slot \in Slots : Started(slot) =>
              phase = "connected" /\ registered = DiscoverAndRegisterTools(providers, 1))

\* a call is in flight on a connected server that registered its nine tools
C11_Witness ==
    /\ phase = "connected"
    /\ Len(registered) = 9
    /\ \E slot \in Slots : Started(slot)

\* the tool names handed to server.registerTool, in order
RegisteredNames == [i \in 1..Len(registered) |-> registered[i].tool.name]

\* C12: when two provider instances share a class that declares tools, or
\* two declarations share a name, every tool name is handed to the server's
\* registerTool at most once.
C12_NamesRegisteredOnce == Injective(RegisteredNames)

\* the scan over two instances of MockToolService has handed list_mock_users
\* to registerTool a second time
C12_TwinRegistered ==
    /\ providers = TwinProviders
    /\ phase = "failed"
    /\ RegisteredNames[1] = "list_mock_users"
    /\ RegisteredNames[Len(registered)] = "list_mock_users"
    /\ Len(registered) = 6

(***************************************************************************)
(* The catalog methods                                                     *)
(***************************************************************************)
\* the names a caller may ask for: the ones in use, one in another case,
\* one that is never in the catalog
AskedNames == RegistryNameArgs \cup {"demo"}

NamedIn(regs, name) == {i \in 1..Len(regs) : regs[i].name = name}

\* C13: after any sequence of addRegistry, updateRegistry and deleteRegistry,
\* getRegistryByName(n) is the first registry in catalog order whose name is
\* exactly n, and undefined when no registry has that name.
C13_FirstExactMatch ==
    \A n \in AskedNames :
        LET found == GetRegistryByName(registries, n)
            named == NamedIn(registries, n)
        IN IF named = {} THEN found = Undefined
           ELSE \E i \in named : /\ \A j \in named : i <= j
                                 /\ found = registries[i]

\* two different registries named Demo are in the catalog after addRegistry,
\* and the first of them is the one found
C13_Witness ==
    /\ op # None
    /\ op.kind = "addRegistry"
    /\ Len(registries) = 2
    /\ registries[1].name = "Demo"
    /\ registries[2].name = "Demo"
    /\ registries[1] # registries[2]
    /\ GetRegistryByName(registries, "Demo") = registries[1]
    /\ GetRegistryByName(registries, "demo") = Undefined

\* C14: updateRegistry(n, r) and deleteRegistry(n) with a name n that no
\* registry has leave the catalog as it was: same registries, same order,
\* same contents.
C14_AbsentNameNoOp ==
    (/\ op # None
     /\ op.kind \in {"updateRegistry", "deleteRegistry"}
     /\ NamedIn(op.before, op.name) = {}) => registries = op.before

\* updateRegistry has been called with a name that the catalog, which holds
\* registries, does not have
C14_Witness ==
    /\ op # None
    /\ op.kind = "updateRegistry"
    /\ op.before # <<>>
    /\ NamedIn(op.before, op.name) = {}
    /\ registries = op.before

\* deleteRegistry likewise
C14_WitnessDelete ==
    /\ op # None
    /\ op.kind = "deleteRegistry"
    /\ op.before # <<>>
    /\ NamedIn(op.before, op.name) = {}
    /\ registries = op.before

\* regs is what is left of before once the registries named name are taken
\* out: the others, each one, in their relative order
OthersInOrder(regs, before, name) ==
    LET others == {i \in 1..Len(before) : before[i].name # name}
    IN /\ Len(regs) = Cardinality(others)
       /\ \E f \in [1..Len(regs) -> others] :
              /\ \A k, l \in 1..Len(regs) : k < l => f[k] < f[l]
              /\ \A k \in 1..Len(regs) : regs[k] = before[f[k]]

DeletedPresent ==
    /\ op # None
    /\ op.kind = "deleteRegistry"
    /\ NamedIn(op.before, op.name) # {}

C15_Witness ==
    /\ DeletedPresent
    /\ Len(op.before) = 2
    /\ Len(registries) = 1
    /\ registries[1].name # op.name

ComponentMissing(registryName, componentName) ==
    LET named == NamedIn(registries, registryName)
        r == registries[CHOOSE i \in named : \A j \in named : i <= j]
    IN \/ r.components = Undefined
       \/ \A k \in 1..Len(r.components.a) : r.components.a[k].name # componentName

\* C16: getComponentsByRegistryName gives an empty list when no registry has
\* the name; getComponentByName gives undefined when the registry is missing
\* and when the registry holds no component of that name; the tools that call
\* them leave the catalog as it was.
C16_MissesAnswered ==
    /\ [](\A rn \in AskedNames :
             /\ NamedIn(registries, rn) = {} =>
                    GetComponentsByRegistryName(registries, rn) = <<>>
             /\ \A cn \in ComponentNameArgs :
                    (\/ NamedIn(registries, rn) = {}
                     \/ ComponentMissing(rn, cn)) =>
                        GetComponentByName(registries, rn, cn) = Undefined)
    /\ [][(resp' # None /\ resp' # resp) => registries' = registries]_vars

\* list_components has answered for a name that the catalog, which holds a
\* registry with components, does not have
C16_Witness ==
    /\ resp # None
    /\ resp.req.tool = "list_components"
    /\ NamedIn(registries, resp.req.registryName) = {}
    /\ registries # <<>>
    /\ ComponentsOrEmpty(registries[1]) # <<>>

\* get_component_docs has answered for a registry without a component list
C16_WitnessNoList ==
    /\ resp # None
    /\ resp.req.tool = "get_component_docs"
    /\ NamedIn(registries, resp.req.registryName) # {}
    /\ GetRegistryByName(registries, resp.req.registryName).components = Undefined

\* C17: getFileContent(path) answers with the empty string when the path does
\* not exist or is not a readable file, and otherwise with the file's content
\* as it is on disk when it is called.
C17_FreshContentOrEmpty ==
    (resp # None /\ resp.req.tool = "getFileContent") =>
        resp.result = OnDisk(resp.req.filePath)

\* getFileContent has read a file that was rewritten after the constructor ran
C17_Witness ==
    /\ resp # None
    /\ resp.req.tool = "getFileContent"
    /\ resp.req.filePath = ReadmePath
    /\ resp.result = "v2"

\* getFileContent has been given a directory
C17_WitnessDirectory ==
    /\ resp # None
    /\ resp.req.tool = "getFileContent"
    /\ IsDir(fs, resp.req.filePath)
    /\ resp.result = ""

(***************************************************************************)
(* Discovery: failures, missing sub-directories, the two example tiers     *)
(***************************************************************************)
Returned == constructed /\ thrown = None

ComponentBase(config, s) ==
    PathJoin(<<Root, config.basePath, config.componentDir, config.componentSubDirs[s]>>)

StoryBase(config, s) ==
    PathJoin(<<Root, config.basePath, config.storiesDir, config.storiesSubDirs[s]>>)

Entries(f, dir) == {p \in DOMAIN f : NodeAt(p).parent = dir}

\* a candidate directory holding a documentation file and no entry whose stat
\* fails
CleanCandidate(f, config, d) ==
    /\ d \in CandidateDirs(f, config)
    /\ \A p \in Entries(f, d) : ExistsSync(f, p)
    /\ \E p \in Entries(f, d) :
           /\ IsFile(f, p)
           /\ SeqIncludes(config.componentFileExtensions, ExtName(NodeAt(p).name))

\* the component list holds a Component for candidate directory d
Produced(components, d) ==
    \E k \in 1..Len(components) :
        /\ components[k].name = NodeAt(d).name
        /\ NodeAt(components[k].markdownFilePaths.a[1]).parent = d

\* every candidate directory without a failing entry has its Component in
\* every registry configured over it
CleanCandidatesProduced ==
    \A r \in 1..Len(registriesConfig) :
        /\ r <= Len(registries)
        /\ \A d \in CandidateDirs(fs, registriesConfig[r].components) :
               CleanCandidate(fs, registriesConfig[r].components, d) =>
                   Produced(registries[r].components.a, d)

\* C18: during discovery every failing filesystem operation is caught and
\* counts as zero results for its step only: the constructor's discovery
\* never throws, and the candidates that no failure touches are produced.
C18_FailuresContained ==
    constructed => (thrown = None /\ CleanCandidatesProduced)

\* the stat of a component's example folder, removed after it was found to
\* exist, has thrown out of the constructor while the second registry was
\* being discovered
C18_StatThrows ==
    /\ constructed
    /\ thrown # None
    /\ thrown.path = "/w/src/stories/basic/Button"
    /\ Len(registriesConfig) = 2
    /\ Len(registries) = 1

\* on a disk that no other process changes during discovery the failures are
\* contained: a dangling link in one candidate, a sub-directory that is a
\* file, a dangling link in the flat tier
C18_StillDiskContained == Returned => CleanCandidatesProduced

\* the sub-directory of the layout that a Component comes from
SubDirOf(config, c) ==
    LET base == NodeAt(NodeAt(c.markdownFilePaths.a[1]).parent).parent
    IN CHOOSE s \in 1..Len(config.componentSubDirs) : ComponentBase(config, s) = base

\* C19: a configured component sub-directory that is not on disk gives no
\* Component and does not stop discovery: the candidates of every other
\* sub-directory are produced, in declared sub-directory order, and a layout
\* whose sub-directories are all missing gives an empty list.
C19_MissingSubDirSkipped ==
    Returned =>
        \A r \in 1..Len(registries) :
            LET config == registriesConfig[r].components
                components == registries[r].components.a
                missing == {s \in 1..Len(config.componentSubDirs) :
                                ~ExistsSync(fs, ComponentBase(config, s))}
            IN /\ \A k \in 1..Len(components) :
                      SubDirOf(config, components[k]) \notin missing
               /\ \A k, l \in 1..Len(components) :
                      k < l => SubDirOf(config, components[k])
                                   <= SubDirOf(config, components[l])
               /\ \A d \in CandidateDirs(fs, config) :
                      CleanCandidate(fs, config, d) => Produced(components, d)
               /\ missing = 1..Len(config.componentSubDirs) => components = <<>>

\* both earlier sub-directories of the layout are missing and the Component of
\* the last one is produced
C19_Witness ==
    /\ Returned
    /\ \E r \in 1..Len(registries) :
           /\ Len(registriesConfig[r].components.componentSubDirs) = 3
           /\ ~ExistsSync(fs, "/w/src/components/ui")
           /\ Len(registries[r].components.a) = 1
           /\ registries[r].components.a[1].markdownFilePaths =
                  Arr(<<"/w/src/components/forms/Button/usage.mdx">>)

\* every sub-directory of a layout is missing
C19_WitnessAllMissing ==
    /\ Returned
    /\ registriesConfig # <<>>
    /\ ~ExistsSync(fs, "/w/src/components/ui")
    /\ ~ExistsSync(fs, "/w/src/components/forms")
    /\ ExistsSync(fs, "/w/src/stories/basic/Button")
    /\ \A r \in 1..Len(registries) : registries[r].components = Arr(<<>>)

StoriesOf(c) == IF c.storyFilePaths = Undefined THEN <<>> ELSE c.storyFilePaths.a

\* a file of the component's own folder that the first tier takes
OwnFolderMatch(f, config, p) ==
    /\ IsFile(f, p)
    /\ \E e \in 1..Len(config.storiesFileExtensions) :
           Includes(NodeAt(p).name, config.storiesFileExtensions[e])

\* a file of the sub-directory that the flat tier takes for componentName
FlatMatch(f, config, componentName, p) ==
    /\ IsFile(f, p)
    /\ SeqIncludes(config.storiesFileExtensions, ExtName(NodeAt(p).name))
    /\ Includes(ToLowerCase(BaseNameNoExt(NodeAt(p).name)), ToLowerCase(componentName))

\* the positions of stories that lie directly in dir
PlacedIn(stories, dir) == {i \in 1..Len(stories) : NodeAt(stories[i]).parent = dir}

\* C20: for each declared examples sub-directory exactly one tier gives a
\* component's files: its own folder when examplesRoot/subDir/<name> is a
\* directory (the flat tier is then not consulted, even when the folder gives
\* nothing), otherwise the flat tier over the sub-directory's own files; the
\* list is the concatenation of the per-sub-directory results in declared
\* order.
C20_OneTierPerSubDir ==
    Returned =>
        \A r \in 1..Len(registries) :
            LET config == registriesConfig[r].components
                components == registries[r].components.a
            IN \A k \in 1..Len(components) :
                   LET name == components[k].name
                       stories == StoriesOf(components[k])
                       subDirs == 1..Len(config.storiesSubDirs)
                       own(s) == PathJoin(<<StoryBase(config, s), name>>)
                   IN /\ \A i \in 1..Len(stories) :
                             \E s \in subDirs :
                                 i \in PlacedIn(stories, StoryBase(config, s))
                                          \cup PlacedIn(stories, own(s))
                      /\ \A s \in subDirs :
                             IF IsDir(fs, own(s))
                             THEN /\ PlacedIn(stories, StoryBase(config, s)) = {}
                                  /\ {stories[i] : i \in PlacedIn(stories, own(s))} =
                                         {p \in Entries(fs, own(s)) :
                                              OwnFolderMatch(fs, config, p)}
                             ELSE /\ PlacedIn(stories, own(s)) = {}
                                  /\ \A i \in PlacedIn(stories, StoryBase(config, s)) :
                                         FlatMatch(fs, config, name, stories[i])
                                  /\ (\A p \in Entries(fs, StoryBase(config, s)) :
                                          ExistsSync(fs, p)) =>
                                         {stories[i] :
                                              i \in PlacedIn(stories, StoryBase(config, s))} =
                                             {p \in Entries(fs, StoryBase(config, s)) :
                                                  FlatMatch(fs, config, name, p)}
                      /\ \A s, t \in subDirs :
                             s < t =>
                                 \A i \in PlacedIn(stories, StoryBase(config, s))
                                              \cup PlacedIn(stories, own(s)) :
                                     \A j \in PlacedIn(stories, StoryBase(config, t))
                                                  \cup PlacedIn(stories, own(t)) : i < j
                      /\ Injective(stories)

\* Button's own folder in basic gives nothing while the flat tier of basic
\* would; the example list is what the flat tier of advanced gives
C20_Witness ==
    /\ Returned
    /\ IsDir(fs, "/w/src/stories/basic/Button")
    /\ ~ExistsSync(fs, "/w/src/stories/basic/Button/Button.stories.js")
    /\ IsFile(fs, "/w/src/stories/basic/ButtonGroup.stories.js")
    /\ \E r \in 1..Len(registries) :
           /\ Len(registriesConfig[r].components.storiesSubDirs) = 3
           /\ registries[r].components.a # <<>>
           /\ registries[r].components.a[1].storyFilePaths =
                  Arr(<<"/w/src/stories/advanced/Button.stories.js">>)

\* the own folder in basic and the flat tier in advanced both give a file
C20_WitnessConcatenated ==
    /\ Returned
    /\ \E r \in 1..Len(registries) :
           /\ registries[r].components.a # <<>>
           /\ registries[r].components.a[1].storyFilePaths =
                  Arr(<<"/w/src/stories/basic/Button/Button.stories.js",
                        "/w/src/stories/advanced/Button.stories.js">>)

(***************************************************************************)
(* The catalog and the disk after construction                             *)
(***************************************************************************)
\* what the three catalog queries answer, for every name asked
CatalogAnswers(regs) ==
    [all |-> GetAllRegistries(regs),
     components |-> [rn \in AskedNames |-> GetComponentsByRegistryName(regs, rn)],
     component |-> [rn \in AskedNames |->
                       [cn \in ComponentNameArgs |-> GetComponentByName(regs, rn, cn)]]]

\* C21: once the catalog is built, a change of the disk never changes what
\* getAllRegistries, getComponentsByRegistryName and getComponentByName
\* answer; the catalog changes only in a step of addRegistry, updateRegistry
\* or deleteRegistry.
C21_DiskChangesLeaveCatalog ==
    /\ [][fs' # fs => CatalogAnswers(registries') = CatalogAnswers(registries)]_vars
    /\ [][registries' # registries => (op' # None /\ op'.before = registries)]_vars

\* the readme that discovery listed is gone from the disk, with its folder,
\* and the catalog still holds Button with that path
C21_Witness ==
    /\ ~ExistsSync(fs, "/w/src/components/ui/Button")
    /\ GetComponentByName(registries, "Demo", "Button") # Undefined
    /\ GetComponentByName(registries, "Demo", "Button").markdownFilePaths =
           Arr(<<ReadmePath>>)

(***************************************************************************)
(* One tool call: transformation, invocation, normalization, response      *)
(***************************************************************************)
\* the call was answered from the try block: the method's result, normalized
SuccessPath(slot) ==
    /\ calls[slot].outcome.kind = "return"
    /\ ~calls[slot].caught
    /\ calls[slot].response = FormatToolResult(calls[slot].outcome.value)

\* the call was answered from the catch block: what the method threw or
\* rejected with, normalized
ErrorPath(slot) ==
    /\ calls[slot].outcome.kind \in {"throw", "reject"}
    /\ calls[slot].caught
    /\ calls[slot].response = ErrorResponse(calls[slot].outcome.value)

\* C22: every dispatched call has its arguments transformed, its target
\* method invoked once with them, and then exactly one of the two
\* normalizations: of the result when the method succeeded, of the error when
\* it threw; the call yields one response, a success or an error, never both
\* and never none.
C22_OnePathPerCall ==
    \A slot \in Slots :
        /\ Started(slot) =>
               calls[slot].methodArgs = TransformArgs(calls[slot].args, ToolOf(slot))
        /\ Answer(slot) =>
               /\ calls[slot].response.t # "rejection"
               /\ SuccessPath(slot) \/ ErrorPath(slot)
               /\ ~(SuccessPath(slot) /\ ErrorPath(slot))

\* the target method's promise has rejected with a Symbol and the handler has
\* given no response: its own promise is rejected
C22_NoResponse ==
    \E slot \in Slots :
        /\ Answer(slot)
        /\ calls[slot].outcome = [kind |-> "reject", value |-> Sym("busy")]
        /\ calls[slot].response.t = "rejection"

\* the target method has succeeded and the call is answered from the catch
\* block, the normalization of its result having thrown
C22_BothNormalizations ==
    \E slot \in Slots :
        /\ Answer(slot)
        /\ calls[slot].outcome.kind = "return"
        /\ calls[slot].caught
        /\ calls[slot].response = ErrorResponse(CircularError)

(***************************************************************************)
(* Calls in flight together                                                *)
(***************************************************************************)
\* the answer the handler gives to a call with that outcome when no other
\* call is in flight
AnswerAlone(outcome) ==
    IF outcome.kind = "return"
    THEN IF FormatToolResultThrows(outcome.value) THEN ErrorResponse(CircularError)
         ELSE FormatToolResult(outcome.value)
    ELSE ErrorResponse(outcome.value)

\* C23: with several calls in flight, interleaved at their awaits, a call
\* whose target method throws gets its own error response and every call
\* completes with the response it would have got alone; the tool table is
\* as the scan left it.
C23_CallsIndependent ==
    /\ phase = "connected" => registered = DiscoverAndRegisterTools(providers, 1)
    /\ \A slot \in DOMAIN calls :
           Answer(slot) => calls[slot].response = AnswerAlone(calls[slot].outcome)

\* the first call's method has thrown a Symbol while the second call was
\* awaiting its method; the first call has no error response
C23_Witness ==
    /\ DOMAIN calls = 1..MaxInFlight
    /\ Answer(1)
    /\ calls[1].outcome.value = Sym("busy")
    /\ calls[1].response.t = "rejection"
    /\ calls[2].pc = "awaiting"

\* what holds of the calls in flight together: a step of one call leaves the
\* other calls and the tool table as they were, and a call answered after
\* another one threw has the answer it would have got alone
C23_OthersUnaffected ==
    /\ [][\A slot \in DOMAIN calls :
             calls'[slot] # calls[slot] =>
                 /\ registered' = registered
                 /\ \A other \in DOMAIN calls \ {slot} : calls'[other] = calls[other]]_vars
    /\ [](\A slot \in DOMAIN calls :
             (Answer(slot) /\ calls[slot].response.t # "rejection") =>
                 calls[slot].response = AnswerAlone(calls[slot].outcome))

\* two calls, interleaved, are both answered: one from the catch block, one
\* with its result
C23_WitnessBothAnswered ==
    /\ DOMAIN calls = 1..MaxInFlight
    /\ Answer(1) /\ Answer(2)
    /\ calls[1].outcome.kind = "reject"
    /\ calls[1].response = ErrorResponse(Err("boom"))
    /\ calls[2].outcome.kind = "return"
    /\ calls[2].response = FormatToolResult(calls[2].outcome.value)

(***************************************************************************)
(* Discovery goes down one level                                           *)
(***************************************************************************)
\* C24: discovery descends exactly one directory level: a Component comes
\* from a directory that is an immediate child of a configured component
\* sub-directory, its documentation paths are files directly in that
\* directory, its example paths are files directly in its own examples folder
\* or directly in an examples sub-directory; nothing nested deeper is ever
\* listed, and an empty sub-directory list gives no Component.
C24_OneLevelOnly ==
    Returned =>
        \A r \in 1..Len(registries) :
            LET config == registriesConfig[r].components
                components == registries[r].components.a
            IN /\ config.componentSubDirs = <<>> => components = <<>>
               /\ \A k \in 1..Len(components) :
                      LET c == components[k]
                          docs == c.markdownFilePaths.a
                          stories == StoriesOf(c)
                      IN /\ \E s \in 1..Len(config.componentSubDirs) :
                                LET d == PathJoin(<<ComponentBase(config, s), c.name>>)
                                IN /\ IsDir(fs, d)
                                   /\ \A i \in 1..Len(docs) :
                                          /\ IsFile(fs, docs[i])
                                          /\ docs[i] =
                                                 PathJoin(<<d, NodeAt(docs[i]).name>>)
                         /\ \A i \in 1..Len(stories) :
                                /\ IsFile(fs, stories[i])
                                /\ \E s \in 1..Len(config.storiesSubDirs) :
                                       stories[i] \in
                                           {PathJoin(<<StoryBase(config, s),
                                                       NodeAt(stories[i]).name>>),
                                            PathJoin(<<StoryBase(config, s), c.name,
                                                       NodeAt(stories[i]).name>>)}

\* the layout rooted at the stories tree: basic is a Component with the one
\* file it holds directly, while a matching file lies one level further down
C24_Witness ==
    /\ Returned
    /\ IsFile(fs, "/w/src/stories/basic/Button/Button.stories.js")
    /\ \E r \in 1..Len(registries) :
           /\ registriesConfig[r] = TreeConfig
           /\ \E k \in 1..Len(registries[r].components.a) :
                  /\ registries[r].components.a[k].name = "basic"
                  /\ registries[r].components.a[k].markdownFilePaths =
                         Arr(<<"/w/src/stories/basic/ButtonGroup.stories.js">>)

\* a layout with an empty sub-directory list, over a disk that holds
\* directories and files, gives no Component
C24_WitnessEmptyList ==
    /\ Returned
    /\ IsFile(fs, ReadmePath)
    /\ \E r \in 1..Len(registries) :
           /\ registriesConfig[r] = BareConfig
           /\ registries[r].components = Arr(<<>>)

(***************************************************************************)
(* The example list of a Component                                         *)
(***************************************************************************)
\* the text list_components gives for a registry, with the counts taken from
\* the lists themselves
CountedList(registry) ==
    LET components == registry.components.a
        line(c) == "- " \o c.name
                   \o " (Markdown: " \o ToString(Len(c.markdownFilePaths.a))
                   \o ", Stories: " \o ToString(Len(StoriesOf(c))) \o ")"
    IN "Components in '" \o registry.name \o "':\n"
       \o Join([k \in 1..Len(components) |-> line(components[k])], "\n")

\* C25: a Component built by discovery has an example list only when an
\* example file was resolved: with none resolved the list is undefined, never
\* empty, and list_components reports its example count as 0.
C25_NoExamplesMeansAbsent ==
    Returned =>
        \A r \in 1..Len(registries) :
            LET components == registries[r].components.a
            IN /\ \A k \in 1..Len(components) :
                      LET c == components[k]
                          resolved == FindStoryFiles(fs, fsOrder, c.name,
                                                     registriesConfig[r].components)
                      IN /\ c.storyFilePaths # Arr(<<>>)
                         /\ resolved = <<>> <=> c.storyFilePaths = Undefined
                         /\ resolved # <<>> => c.storyFilePaths = Arr(resolved)
               /\ components # <<>> =>
                      ListComponentsTool(registries, registries[r].name) =
                          TextResult(CountedList(registries[r]))

\* Button is a Component of Demo, its own examples folder exists and holds
\* nothing: the example list is undefined and the count reported is 0
C25_Witness ==
    /\ Returned
    /\ registriesConfig = <<DemoConfig>>
    /\ IsDir(fs, "/w/src/stories/basic/Button")
    /\ registries[1].components.a # <<>>
    /\ registries[1].components.a[1].storyFilePaths = Undefined
    /\ ListComponentsTool(registries, "Demo") =
           TextResult("Components in 'Demo':\n- Button (Markdown: 1, Stories: 0)")

(***************************************************************************)
(* The tool table after the scan                                           *)
(***************************************************************************)
\* C26: once the bootstrap scan has completed, the registered tools and each
\* one's name, schema, target method, owning instance and parameter map never
\* change, whatever calls, returning or throwing, follow.
C26_TableFixedAfterScan ==
    /\ [][phase # "created" => registered' = registered]_vars
    /\ [](\A slot \in DOMAIN calls :
             Started(slot) => registered = DiscoverAndRegisterTools(providers, 1))

\* calls have been answered from the catch block and with a result, over the
\* table of the application's two tool classes
C26_Witness ==
    /\ phase = "connected"
    /\ providers = AppProviders
    /\ Len(registered) = 9
    /\ \E slot \in DOMAIN calls :
           /\ Answer(slot)
           /\ calls[slot].outcome.kind = "reject"
           /\ calls[slot].caught

(***************************************************************************)
(* The shape of every response                                             *)
(***************************************************************************)
\* an object whose content is a list of blocks, each text block with a string
\* as its text
WellFormedEnvelope(v) ==
    /\ v.t = "object"
    /\ HasKey(v, "content")
    /\ Get(v, "content").t = "array"
    /\ \A i \in 1..Len(Get(v, "content").a) :
           LET block == Get(v, "content").a[i]
           IN /\ block.t = "object"
              /\ Get(block, "type") = JStr("text") => Get(block, "text").t = "string"

\* C27: every response a registered tool handler returns, whatever the target
\* method returned (undefined, null and objects with a 'content' key
\* included), is a well-formed content envelope.
C27_ResponsesWellFormed ==
    \A slot \in DOMAIN calls :
        (Answer(slot) /\ calls[slot].response.t # "rejection") =>
            WellFormedEnvelope(calls[slot].response)

\* the target method returned undefined and the response's one text block
\* has undefined as its text
C27_UndefinedReturned ==
    \E slot \in DOMAIN calls :
        /\ Answer(slot)
        /\ calls[slot].outcome = [kind |-> "return", value |-> Undefined]
        /\ calls[slot].response = Envelope(Undefined)

\* the target method returned an object whose content is a string and the
\* response is that object
C27_ContentPassedThrough ==
    \E slot \in DOMAIN calls :
        /\ Answer(slot)
        /\ calls[slot].outcome.kind = "return"
        /\ calls[slot].response = Obj(<<Prop("content", JStr("done"))>>)

\* what holds of the other returned values: null, numbers, strings, arrays,
\* objects without a content key, envelopes, and every caught error
C27_OtherValuesWellFormed ==
    \A slot \in DOMAIN calls :
        (/\ Answer(slot)
         /\ calls[slot].response.t # "rejection"
         /\ calls[slot].outcome.kind = "return" =>
                calls[slot].outcome.value
                    \notin {Undefined, Obj(<<Prop("content", JStr("done"))>>)}) =>
            WellFormedEnvelope(calls[slot].response)

(***************************************************************************)
(* The @McpTool decorator and the metadata it keeps per class              *)
(***************************************************************************)
\* a method of a class body, with the options of its @McpTool or None
Member(methodName, options) == [methodName |-> methodName, options |-> options]

ClassNames == {"MockToolService", "AuditedToolService", "MyService"}

\* the programs: MockToolService and MyService as they are written, and a
\* service that may extend MockToolService; a class is the class it extends,
\* its methods in order, and the position of the last decorator applied
Programs ==
    LET options(name) == [name |-> name, paramMap |-> Undefined]
        declaration(parent, members) ==
            [extends |-> parent, members |-> members, applied |-> 0]
        mockToolService ==
            <<Member("getAllUsers", options("list_mock_users")),
              Member("getUserById", options("get_mock_user")),
              Member("createUser", options("create_mock_user")),
              Member("searchUsers", options("search_mock_users")),
              Member("getUserStats", options("get_mock_user_stats")),
              Member("resetUsers", None)>>
        derived ==
            {<<>>,
             <<Member("auditUsers", options("audit_mock_users"))>>,
             <<Member("auditUsers", options("audit_mock_users")),
               Member("clearAudit", None),
               Member("exportAudit", options("export_audit"))>>}
    IN {[class \in ClassNames |->
            CASE class = "MockToolService" -> declaration("Object", mockToolService)
              [] class = "MyService" ->
                   declaration("Object", <<Member("myMethod", options("my_tool"))>>)
              [] OTHER -> declaration(parent, body)] :
           parent \in {"Object", "MockToolService"}, body \in derived}

\* the positions of the decorated methods of a class that are not applied yet
Pending(table, class) ==
    {i \in 1..Len(table[class].members) :
        i > table[class].applied /\ table[class].members[i].options # None}

\* Reflect.getMetadata(MCP_TOOL_METADATA, class): the array of the class's
\* own entry, or of the entry found along its prototype chain; 0 for undefined
RECURSIVE GetMetadata(_, _, _)
GetMetadata(table, store, class) ==
    IF class = "Object" THEN 0
    ELSE IF store.own[class] # 0 THEN store.own[class]
    ELSE GetMetadata(table, store, table[class].extends)

InitDecorators ==
    /\ fs = FsOf({})
    /\ fsOrder = "asc"
    /\ registriesConfig = <<>>
    /\ registries = <<>>
    /\ constructed = FALSE
    /\ thrown = None
    /\ CatalogIdle
    /\ DispatchIdle
    /\ fmtIn = None
    /\ fmtOut = None
    /\ classes \in Programs
    /\ metadata = [own |-> [class \in ClassNames |-> 0], arrays |-> <<>>]

\* the decorator of method i of the class runs, while the class is defined:
\* after the class it extends is defined, and after the decorators of the
\* methods above it
McpTool(class, i) ==
    /\ classes # None
    /\ Pending(classes, class) # {}
    /\ i = CHOOSE first \in Pending(classes, class) :
               \A other \in Pending(classes, class) : first <= other
    /\ classes[class].extends # "Object" => Pending(classes, classes[class].extends) = {}
    /\ \A other \in ClassNames \ {class} :
           classes[other].applied = 0 \/ Pending(classes, other) = {}
    /\ LET found == GetMetadata(classes, metadata, class)
           existingTools == IF found = 0 THEN Len(metadata.arrays) + 1 ELSE found
           toolMetadata == ToolMetadata(classes[class].members[i].options.name,
                                        classes[class].members[i].methodName,
                                        classes[class].members[i].options.paramMap)
           pushed == IF found = 0
                     THEN Append(metadata.arrays, <<toolMetadata>>)
                     ELSE [metadata.arrays EXCEPT ![found] = Append(@, toolMetadata)]
       IN metadata' = [own |-> [metadata.own EXCEPT ![class] = existingTools],
                       arrays |-> pushed]
    /\ classes' = [classes EXCEPT ![class].applied = i]
    /\ UNCHANGED <<discoveryVars, catalogVars, dispatchVars, fmtIn, fmtOut>>

NextDecorators ==
    \E class \in ClassNames : \E i \in Pending(classes, class) : McpTool(class, i)

SpecDecorators == InitDecorators /\ [][NextDecorators]_vars

\* the list recorded for the class itself, [] when it has none
OwnTools(class) ==
    IF metadata.own[class] = 0 THEN <<>> ELSE metadata.arrays[metadata.own[class]]

\* the declarations made on the class so far, in declaration order
RECURSIVE DeclaredUpTo(_, _)
DeclaredUpTo(class, i) ==
    IF i = 0 THEN <<>>
    ELSE LET member == classes[class].members[i]
         IN IF member.options = None THEN DeclaredUpTo(class, i - 1)
            ELSE Append(DeclaredUpTo(class, i - 1),
                        ToolMetadata(member.options.name, member.methodName,
                                     member.options.paramMap))

\* C28: a declaration made with @McpTool on a method of class C is recorded in
\* the metadata of C only: every class's list, a parent class's included,
\* holds exactly one entry per declaration made on that class, in declaration
\* order, and none for an undecorated method.
C28_RecordedOnOwnClassOnly ==
    \A class \in ClassNames :
        OwnTools(class) = DeclaredUpTo(class, classes[class].applied)

\* a method of the derived class was decorated and its entry is in the list
\* of the class it extends
C28_ParentListGrown ==
    /\ classes["AuditedToolService"].extends = "MockToolService"
    /\ classes["AuditedToolService"].applied > 0
    /\ \E k \in 1..Len(OwnTools("MockToolService")) :
           OwnTools("MockToolService")[k].methodName = "auditUsers"

\* what holds of every class: its declarations are in its list in declaration
\* order, no list names an undecorated method, and a class outside every
\* hierarchy has exactly its own declarations
C28_DeclarationsKept ==
    \A class \in ClassNames :
        LET declared == DeclaredUpTo(class, classes[class].applied)
            listed == OwnTools(class)
            own(k) == \E j \in 1..Len(declared) : declared[j] = listed[k]
            alone == /\ classes[class].extends = "Object"
                     /\ \A other \in ClassNames : classes[other].extends # class
        IN /\ SelectSeq(listed, LAMBDA tool : \E j \in 1..Len(declared) : declared[j] = tool)
                  = declared
           /\ \A k \in 1..Len(listed) :
                  \E other \in ClassNames : \E j \in 1..Len(classes[other].members) :
                      /\ classes[other].members[j].methodName = listed[k].methodName
                      /\ classes[other].members[j].options # None
           /\ alone => listed = declared

\* the class outside every hierarchy was decorated, and so was the base class
C28_WitnessAlone ==
    /\ OwnTools("MyService") = <<ToolMetadata("my_tool", "myMethod", Undefined)>>
    /\ Len(OwnTools("MockToolService")) = 5

(***************************************************************************)
(* Component names within one registry                                     *)
(***************************************************************************)
\* C29: in the component list that discovery builds for one registry the
\* names are pairwise distinct, so getComponentByName finds the only
\* component of that name, also when the same folder name exists under two
\* configured component sub-directories.
C29_NamesDistinct ==
    Returned =>
        \A r \in 1..Len(registries) :
            LET components == registries[r].components.a
            IN \A k, l \in 1..Len(components) :
                   components[k].name = components[l].name => k = l

\* Button exists under ui and under forms: the registry lists two components
\* named Button, and getComponentByName answers with the one of ui
C29_TwoButtons ==
    /\ Returned
    /\ \E r \in 1..Len(registries) :
           LET components == registries[r].components.a
           IN /\ Len(components) = 2
              /\ components[1].name = "Button"
              /\ components[2].name = "Button"
              /\ components[1].markdownFilePaths
                     = Arr(<<"/w/src/components/ui/Button/readme.md">>)
              /\ components[2].markdownFilePaths
                     = Arr(<<"/w/src/components/forms/Button/usage.mdx">>)
              /\ GetComponentByName(<<registries[r]>>, registries[r].name, "Button")
                     = components[1]

\* what holds: within one configured sub-directory the names are distinct,
\* and getComponentByName answers with the first component of the name
C29_DistinctPerSubDir ==
    Returned =>
        \A r \in 1..Len(registries) :
            LET config == registriesConfig[r].components
                components == registries[r].components.a
            IN \A k, l \in 1..Len(components) :
                   /\ (/\ components[k].name = components[l].name
                       /\ SubDirOf(config, components[k]) = SubDirOf(config, components[l]))
                          => k = l
                   /\ (components[k].name = components[l].name /\ k <= l) =>
                          FindComponent(components, components[l].name)
                              = FindComponent(components, components[k].name)

(***************************************************************************)
(* The flat tier's match                                                   *)
(***************************************************************************)
\* C30: in the flat tier an example file is attached to a component only if
\* its exact extension is configured and its name contains the component's
\* name case-insensitively, and no example path is attached to two different
\* components of one registry: a file named for ButtonGroup is not among the
\* examples of Button.
C30_FlatTierAttachesOwnFiles ==
    Returned =>
        \A r \in 1..Len(registries) :
            LET config == registriesConfig[r].components
                components == registries[r].components.a
                flat(k) == {i \in 1..Len(StoriesOf(components[k])) :
                               \E s \in 1..Len(config.storiesSubDirs) :
                                   NodeAt(StoriesOf(components[k])[i]).parent
                                       = StoryBase(config, s)}
            IN /\ \A k \in 1..Len(components) : \A i \in flat(k) :
                      FlatMatch(fs, config, components[k].name, StoriesOf(components[k])[i])
               /\ \A k, l \in 1..Len(components) :
                      k # l => \A i \in 1..Len(StoriesOf(components[k])) :
                                   \A j \in 1..Len(StoriesOf(components[l])) :
                                       StoriesOf(components[k])[i] # StoriesOf(components[l])[j]
               /\ \A k \in 1..Len(components) : \A i \in flat(k) :
                      components[k].name = "Button" =>
                          NodeAt(StoriesOf(components[k])[i]).name # "ButtonGroup.stories.js"

\* the flat tier of basic gave ButtonGroup's file to the one component Button
C30_ButtonGroupFileOfButton ==
    /\ Returned
    /\ \E r \in 1..Len(registries) :
           LET components == registries[r].components.a
           IN /\ Len(components) = 1
              /\ components[1].name = "Button"
              /\ \E i \in 1..Len(StoriesOf(components[1])) :
                     StoriesOf(components[1])[i]
                         = "/w/src/stories/basic/ButtonGroup.stories.js"

\* two components of one registry list the same example path
C30_SharedExample ==
    /\ Returned
    /\ \E r \in 1..Len(registries) :
           LET components == registries[r].components.a
           IN \E k, l \in 1..Len(components) :
                  /\ k < l
                  /\ \E i \in 1..Len(StoriesOf(components[k])) :
                         \E j \in 1..Len(StoriesOf(components[l])) :
                             StoriesOf(components[k])[i] = StoriesOf(components[l])[j]

\* what holds: every flat-tier example has a configured exact extension and a
\* name that contains the component's name case-insensitively
C30_FlatTierMatches ==
    Returned =>
        \A r \in 1..Len(registries) :
            LET config == registriesConfig[r].components
                components == registries[r].components.a
            IN \A k \in 1..Len(components) : \A i \in 1..Len(StoriesOf(components[k])) :
                   LET p == StoriesOf(components[k])[i]
                   IN (\E s \in 1..Len(config.storiesSubDirs) :
                           NodeAt(p).parent = StoryBase(config, s)) =>
                          FlatMatch(fs, config, components[k].name, p)

====
